---- MODULE Spec2Model ----
(***************************************************************************)
(* State machine of the monitoring core of the MCP server: the shared      *)
(* AppState (status cell, tool call history, metrics, event channel), the  *)
(* WebSocket rate limiter and the per-connection stream loops.             *)
(*                                                                         *)
(* One module, several specifications.  Each specification runs one part   *)
(* of the program and holds the variables of the other parts at their      *)
(* constructed values:                                                     *)
(*   SpecRecord  record_tool_call / add_tool_call callers                  *)
(*   SpecStatus  the status cell and the handlers that load and store it   *)
(*   SpecRateSeq the WebSocket rate limiter, one call after another        *)
(*   SpecBus     the event channel: publishers and plain receivers         *)
(*   SpecConn    a WebSocket / SSE connection loop on the event channel    *)
(*   SpecRate    the WebSocket rate limiter under concurrent handlers      *)
(*   SpecAdmit   connection setup of websocket_handler and sse_handler     *)
(*   SpecRecordSeq  record_tool_call, one call after another               *)
(*   SpecHistory sustained appends to the tool call history                *)
(*   SpecPublish send_event / send_event_details and receivers             *)
(*   SpecTools   the get_request and read_file tools, get_tool_calls       *)
(*   SpecMetrics update_metric and record_tool_call on the metric store    *)
(*   SpecSession the session table and the callers of update_activity      *)
(*   SpecRateFair  SpecRate with the runtime's fairness                    *)
(*   SpecFrames  the messages a WebSocket and an SSE connection write      *)
(*   SpecSse     the messages an SSE connection writes                     *)
(*   SpecWatchFair  the hot-reload watcher and its shutdown channel        *)
(*   SpecLocks   the locks and await points of the handlers                *)
(*   SpecExecute the execute_tool handler                                  *)
(*   SpecRatePair  two handlers calling the rate limiter for one address   *)
(*   SpecDeliver record_tool_call callers, an event receiver and a reader  *)
(*   SpecCleanup the rate limiter with cleanup between calls               *)
(*   SpecHeartbeat  get_status / get_heartbeat after main() stored         *)
(*   SpecConfig  Config::validate                                          *)
(*   SpecInstances  AppState values constructed, cloned and used           *)
(***************************************************************************)
EXTENDS Integers, Sequences, FiniteSets, TLC

(***************************************************************************)
(* Bounds of the model.                                                    *)
(***************************************************************************)
\* Number of tasks that call record_tool_call / add_tool_call concurrently.
NumRecTasks == 2
\* Number of tasks that load and store the status cell concurrently.
NumStatusTasks == 2
\* Total number of tool calls the tasks start.
MaxCalls == 3
\* Largest value of the wall clock (Utc::now) in the status model.
MaxUtc == 2

\* Total number of check_rate_limit calls: of one caller calling one after
\* another (MaxSeqCalls), and of concurrent callers (MaxRateCalls).
MaxSeqCalls == 12
MaxRateCalls == 4
\* The monotonic clock (Instant::now) advances in steps of TickStep seconds,
\* up to MaxInstant.
TickStep == 30
MaxInstant == 90

\* Number of records appended to the history in the history growth model.
MaxAppends == 1001

\* Total number of events published in the event channel models.
MaxPublish == 1026
\* Receivers are scheduled (subscribe, recv, drop) while at most MaxEarly events
\* have been sent, when requested_capacity + 1 have, or when at least
\* ChannelCapacity have: in between only the publishers run.  Each receiver
\* calls recv at most MaxRecv times.
MaxEarly == 2
\* Completions of the watcher's one-second sleep.
MaxTicks == 2
\* Frames written per stream connection.
MaxFrames == 2
\* update_activity calls per caller.
MaxUpdates == 2
MaxRecv == 2
\* AppState values: constructed by AppState::new or cloned.
MaxInstances == 2

\* AppState::new: broadcast::channel(1000), the capacity asked for.
requested_capacity == 1000

\* usize::next_power_of_two
RECURSIVE power_of_two_from(_, _)
power_of_two_from(p, n) == IF p >= n THEN p ELSE power_of_two_from(2 * p, n)

next_power_of_two(n) == power_of_two_from(1, n)

\* tokio's broadcast::channel rounds the capacity it is asked for up to a power
\* of two: the number of values the channel holds.
ChannelCapacity == next_power_of_two(requested_capacity)

\* Crate documentation: "Tool call history is bounded to 1000 entries".
max_tool_calls_history == 1000

\* WebSocketRateLimiter::new: at most 10 connections per IP per 60 seconds.
max_connections_per_ip == 10
time_window == 60

RecTasks == 1..NumRecTasks
\* Handler invocations that run check_rate_limit, and the peer addresses.
RateTasks == {"h1", "h2"}
IpAddrs == {"10.0.0.1", "10.0.0.2"}
StatusTasks == 1..NumStatusTasks
ToolNames == {"echo", "read_file"}
\* The outcomes a caller completes its record with (ToolCallResult).
\* Results a caller completes a record with.
Outcomes == {[tag |-> "Success", value |-> "value"], [tag |-> "Error", value |-> "boom"]}

VARIABLES
    \* ---- AppState (src/shared/state.rs) ----
    tool_calls,     \* Vec<ToolCall> behind the RwLock: a sequence of records
    metrics,        \* DashMap<String, MetricValue>: a function on the keys present
    mcp_status,     \* the McpStatus the ArcSwap points to
    tail,           \* broadcast channel: number of values sent so far (tail position)
    rx,             \* broadcast channel: the receivers, [live, next]
    rxSub,          \* history of the calls: receiver -> tail at its subscribe (-1: none)
    observed,       \* history of the calls: receiver -> what its recv calls returned
    behind,         \* history of the calls: receiver -> it fell behind the channel bound
    \* ---- callers of record_tool_call / add_tool_call ----
    rpc,            \* task -> "idle" | "send" | "get" | "insert"
    rcall,          \* task -> the ToolCall it is recording
    rcounter,       \* task -> the counter value read by metrics.get
    nextId,         \* number of Uuid::new_v4() ids handed out
    appended,       \* history of the calls: ids passed to a push
    completed,      \* history of the calls: tool name -> record_tool_call calls returned
    \* ---- callers of the status cell ----
    spc,            \* task -> "idle" | "loaded"
    skind,          \* task -> which handler is running
    sloaded,        \* task -> the snapshot its load returned
    utcNow,         \* the wall clock, Utc::now()
    storedSnaps,    \* history of the calls: every snapshot passed to store (and the first)
    \* ---- WebSocketRateLimiter (src/dashboard/websocket.rs) ----
    connections,    \* HashMap<IpAddr, Vec<Instant>>: a function on the addresses present
    instantNow,     \* the monotonic clock, Instant::now(), in seconds
    lpc,            \* handler -> "idle" | "lock" (now taken, waiting for the write lock)
    lip,            \* handler -> the address it checks
    lnow,           \* handler -> the Instant it took before locking
    rateCalls,      \* number of check_rate_limit calls started
    callLog,        \* history of the calls: address -> <<[now, allowed]>>, in lock order
    \* ---- stream connections (websocket_handler, sse_handler) ----
    ckind,          \* connection -> "none" | "ws" | "sse"
    cpc,            \* connection -> "none" | "loop" | "done" | "panicked"
    peer,           \* connection -> "open" | "closed": the underlying connection
    inbound,        \* connection -> "open" | "ended": msg_stream has yielded None
    recvOff,        \* connection -> the recv branch is disabled in the current select!
    trigger,        \* history: connection -> the last terminating event its loop saw
    \* ---- connection setup (websocket_handler, sse_handler up to the subscribe) ----
    lret,           \* handler -> what its check_rate_limit call returned, until read
    apc,            \* handler -> "idle" | "handle" | "streaming"
    areq,           \* handler -> the request and configuration it serves
    aadm,           \* history: handler -> admission outcome of its current request
    aresp,          \* handler -> the response its current request got
    \* ---- callers of the AppState API and of the tools ----
    sendRet,        \* the last send_event / send_event_details call: [call, ret]
    recRet,         \* task -> what its last record_tool_call call returned
    recent,         \* the last get_tool_calls call: [limit, at, calls], at = history length then
    executions,     \* history: number of tool executions that have returned
    lastExec,       \* history: the last tool execution, [tool, outcome]
    \* ---- AppState.active_sessions (DashMap<Uuid, SessionInfo>) and its callers ----
    active_sessions,\* a function on the session ids present: id -> SessionInfo
    guard,          \* caller -> the id whose entry guard (RefMut) it holds, or 0
    upc,            \* caller -> "idle" | "held" | "loaded" (inside request_count += 1)
    uloaded,        \* caller -> the request_count it read
    updates,        \* history: id -> caller -> update_activity calls returned
    nextSession,    \* number of SessionInfo::new() ids handed out
    \* ---- what the stream connections write (websocket_handler, sse_handler) ----
    wsOut,          \* <<[event, frame]>>: the frames passed to session.text, in order
    sseOut,         \* <<[event, frame]>>: the frames the SSE stream yielded, in order
    \* ---- HotReloadWatcher::start (src/dashboard/hot_reload.rs) ----
    wpc,            \* "not_started" | "select" | "returned_ok" | "panicked"
    wdirs,          \* the directories that existed when start ran
    watched,        \* the directories watcher.watch(..) accepted
    debouncer,      \* "none" | "Ok" | "Err": what new_debouncer returned
    shutdown_rx,    \* the oneshot channel: "empty" | "value" | "closed"
    wticks,         \* number of times the one-second sleep has completed
    \* ---- tasks and the locks they take (handlers.rs, state.rs, websocket.rs) ----
    khandler,       \* task -> the function it runs, or "none"
    kstep,          \* task -> the step of the function it is at
    kwait,          \* task -> it is suspended at the await of that step
    kheld,          \* task -> the guards it holds, a set of [lock, mode]
    kqueue,         \* lock -> the tasks waiting for it, in arrival order
    \* ---- the values the broadcast channel holds (src/shared/state.rs) ----
    toolCalled,     \* position -> the id of the ToolCalled event stored at it
    \* ---- execute_tool (src/dashboard/handlers.rs) ----
    xcall,          \* task -> the tool_call of the request it serves, or None
    requests,       \* number of execute_tool requests received
    responses,      \* the responses execute_tool returned, in order of return
    \* ---- WebSocketRateLimiter (src/dashboard/websocket.rs) ----
    uncleaned,      \* the table the same check_rate_limit calls leave without cleanup
    \* ---- Config::validate (src/shared/config.rs) ----
    validation,     \* the last call of validate: [config, env, result], or None
    \* ---- AppState instances (src/shared/state.rs) ----
    heap,           \* the shared cells (Arc allocations, channels): a sequence of values
    instances       \* the AppState values: <<[field |-> index of its cell in heap]>>

appVars == <<tool_calls, metrics, mcp_status, tail, rx>>
busVars == <<rxSub, observed, behind>>
recVars == <<rpc, rcall, rcounter, nextId, appended, completed>>
statusVars == <<spc, skind, sloaded, utcNow, storedSnaps>>
rateVars == <<connections, instantNow, lpc, lip, lnow, rateCalls, callLog>>
connVars == <<ckind, cpc, peer, inbound, recvOff, trigger>>
admitVars == <<lret, apc, areq, aadm, aresp>>
apiVars == <<sendRet, recRet, recent, executions, lastExec>>
sessVars == <<active_sessions, guard, upc, uloaded, updates, nextSession>>
outVars == <<wsOut, sseOut>>
watchVars == <<wpc, wdirs, watched, debouncer, shutdown_rx, wticks>>
lockVars == <<khandler, kstep, kwait, kheld, kqueue>>
cfgVars == <<validation>>
instVars == <<heap, instances>>
evVars == <<toolCalled, xcall, requests, responses, uncleaned, cfgVars, instVars>>
sideVars == <<sessVars, outVars, watchVars, lockVars>>
extVars == <<sideVars, evVars>>
vars == <<appVars, busVars, recVars, statusVars, rateVars, connVars, admitVars,
          apiVars, extVars>>

(***************************************************************************)
(* Data types of src/shared/state.rs                                       *)
(***************************************************************************)
None == [tag |-> "None"]
Some(v) == [tag |-> "Some", value |-> v]

Counter(c) == [tag |-> "Counter", value |-> c]
Gauge(g) == [tag |-> "Gauge", value |-> g]
Histogram(h) == [tag |-> "Histogram", value |-> h]

\* MetricValue::as_number: Counter(c) => c, Gauge(g) => g,
\* Histogram(h) => h.last().copied().unwrap_or(0.0)
as_number(v) ==
    IF v.tag = "Histogram"
    THEN (IF Len(v.value) = 0 THEN 0 ELSE v.value[Len(v.value)])
    ELSE v.value

\* ToolCall::new: the pending shape.
ToolCall_new(name, id) ==
    [id |-> id, name |-> name, tool_name |-> name, duration_ms |-> None,
     result |-> None, result_string |-> None, success |-> FALSE, error |-> None]

\* ToolCallResult::Success(value) / ToolCallResult::Error(msg)
ToolCallResult_Success(value) == [tag |-> "Success", value |-> value]
ToolCallResult_Error(msg) == [tag |-> "Error", value |-> msg]

\* serde_json::Value::to_string of a JSON string: the string in quotes.
to_string(value) == "\"" \o value \o "\""

\* A complete that marks every record as successful.
ToolCall_complete_success(call, result, duration_ms) ==
    [call EXCEPT !.result = Some(result), !.duration_ms = Some(duration_ms),
                 !.success = TRUE, !.result_string = Some(to_string(result.value)),
                 !.error = None]

\* ToolCall::complete: the completed shape, by result.
ToolCall_complete(call, result, duration_ms) ==
    IF result.tag = "Success"
    THEN [call EXCEPT !.result = Some(result), !.duration_ms = Some(duration_ms),
                      !.success = TRUE,
                      !.result_string = Some(to_string(result.value)),
                      !.error = None]
    ELSE [call EXCEPT !.result = Some(result), !.duration_ms = Some(duration_ms),
                      !.success = FALSE, !.result_string = None,
                      !.error = Some(result.value)]

\* The record a caller hands over: pending (no result), or completed.
BuildCall(name, id, outcome) ==
    IF outcome.tag = "None" THEN ToolCall_new(name, id)
    ELSE ToolCall_complete(ToolCall_new(name, id), outcome, 1)

\* McpStatus::default(), as AppState::new stores it.
McpStatus_default ==
    [connected |-> TRUE, last_heartbeat |-> Some(0), capabilities |-> "default",
     server_info |-> "Rust MCP Server", started_at |-> 0]

\* The status main() stores at startup.
McpStatus_main(now) ==
    [connected |-> TRUE, last_heartbeat |-> Some(now), capabilities |-> "main",
     server_info |-> "rust-mcp-dashboard", started_at |-> now]

(***************************************************************************)
(* Broadcast channel (tokio::sync::broadcast), created by AppState::new.   *)
(* Events are named by their position: event p is the p-th value sent.    *)
(***************************************************************************)
\* The receiver handles of the model.
Receivers == {"rx1", "rx2"}

receiver_count == Cardinality({r \in Receivers : rx[r].live})

\* Sender::send: with no receiver the value is not stored and Err is returned
\* (the callers ignore it); otherwise the value takes the next position.
send(t) == IF receiver_count = 0 THEN t ELSE t + 1

\* A send that waits until every receiver has room for the value.
can_send_when_room(t, rxs) ==
    \A r \in Receivers : rxs[r].live => t - rxs[r].next < ChannelCapacity

\* Sender::send never waits for a receiver.
can_send(t, rxs) == TRUE

\* A channel that keeps only the newest value for a receiver that lagged.
oldest_retained_newest(t) == IF t > 0 THEN t - 1 ELSE 0

\* The channel keeps the last ChannelCapacity values: the position before the
\* oldest value it still holds.
oldest_retained(t) == IF t > ChannelCapacity THEN t - ChannelCapacity ELSE 0

\* The receivers whose next value has been overwritten once t values are sent.
fallen_behind(t) ==
    [r \in Receivers |-> behind[r] \/ (rx[r].live /\ rx[r].next < oldest_retained(t))]

Scheduled ==
    \/ tail <= MaxEarly
    \/ tail = requested_capacity + 1
    \/ tail >= ChannelCapacity

\* What a recv call returned: a value, or Lagged(n); with the tail at the call.
RecvOk(p, t) == [kind |-> "Ok", pos |-> p, at |-> t]
RecvLagged(n, t) == [kind |-> "Lagged", missed |-> n, at |-> t]

\* A subscribe that starts at the oldest value the channel holds.
subscribe_position_oldest(t) == oldest_retained(t)

\* Sender::subscribe: the new receiver starts at the tail.
subscribe_position(t) == t

\* state.event_tx.send(event) by a publisher (the tools, main): publish one
\* event; the result is only logged or ignored.
publish ==
    /\ tail < MaxPublish
    /\ can_send(tail, rx)
    /\ tail' = send(tail)
    /\ behind' = fallen_behind(send(tail))
    /\ UNCHANGED <<tool_calls, metrics, mcp_status, rx, rxSub, observed, recVars,
                   statusVars, rateVars, connVars,
                   admitVars, apiVars, extVars>>

\* subscribe_to_events / event_tx.subscribe: a receiver that starts at the tail.
subscribe(r) ==
    /\ Scheduled
    /\ rxSub[r] = -1
    /\ rx' = [rx EXCEPT ![r] = [live |-> TRUE, next |-> subscribe_position(tail)]]
    /\ rxSub' = [rxSub EXCEPT ![r] = tail]
    /\ UNCHANGED <<tool_calls, metrics, mcp_status, tail, observed, behind, recVars,
                   statusVars, rateVars, connVars,
                   admitVars, apiVars, extVars>>

\* Receiver::recv returns Err(Lagged(n)): the receiver missed n values and
\* continues at the oldest value the channel still holds.
recv_lagged(r) ==
    /\ Scheduled
    /\ rx[r].live
    /\ Len(observed[r]) < MaxRecv
    /\ rx[r].next < oldest_retained(tail)
    /\ observed' = [observed EXCEPT ![r] =
                      Append(@, RecvLagged(oldest_retained(tail) - rx[r].next, tail))]
    /\ rx' = [rx EXCEPT ![r].next = oldest_retained(tail)]
    /\ UNCHANGED <<tool_calls, metrics, mcp_status, tail, rxSub, behind, recVars,
                   statusVars, rateVars, connVars,
                   admitVars, apiVars, extVars>>

\* Receiver::recv returns Ok(value): the value at the receiver's position.
recv_ok(r) ==
    /\ Scheduled
    /\ rx[r].live
    /\ Len(observed[r]) < MaxRecv
    /\ rx[r].next >= oldest_retained(tail)
    /\ rx[r].next < tail
    /\ observed' = [observed EXCEPT ![r] = Append(@, RecvOk(rx[r].next + 1, tail))]
    /\ rx' = [rx EXCEPT ![r].next = @ + 1]
    /\ UNCHANGED <<tool_calls, metrics, mcp_status, tail, rxSub, behind, recVars,
                   statusVars, rateVars, connVars,
                   admitVars, apiVars, extVars>>

\* The receiver is dropped.
drop_receiver(r) ==
    /\ Scheduled
    /\ rx[r].live
    /\ rx' = [rx EXCEPT ![r].live = FALSE]
    /\ UNCHANGED <<tool_calls, metrics, mcp_status, tail, rxSub, observed, behind,
                   recVars, statusVars, rateVars, connVars,
                   admitVars, apiVars, extVars>>

(***************************************************************************)
(* Tool call history and metrics                                           *)
(***************************************************************************)
\* A push that overwrites the last slot instead of growing the vector.
push_overwrite(history, call) ==
    IF history = <<>> THEN <<call>>
    ELSE [history EXCEPT ![Len(history)] = call]

\* A push that puts the new record in front of the others.
push_front(history, call) == <<call>> \o history

\* Vec::push under the write lock.
push(history, call) == Append(history, call)

metric_key(name) == "tool_calls_" \o name

\* DashMap::insert
insert(m, k, v) == [x \in (DOMAIN m) \cup {k} |-> IF x = k THEN v ELSE m[x]]

\* metrics.get(key).map(Counter(c) => c, _ => 0).unwrap_or(0)
get_counter(m, k) ==
    IF k \in DOMAIN m /\ m[k].tag = "Counter" THEN m[k].value ELSE 0

\* record_tool_call, first statement: self.tool_calls.write().await.push(call)
record_tool_call_push(t, name, outcome) ==
    /\ rpc[t] = "idle"
    /\ LET call == BuildCall(name, nextId + 1, outcome) IN
           /\ tool_calls' = push(tool_calls, call)
           /\ rcall' = [rcall EXCEPT ![t] = call]
           /\ appended' = appended \cup {call.id}
    /\ nextId' = nextId + 1
    /\ rpc' = [rpc EXCEPT ![t] = "send"]
    /\ UNCHANGED <<busVars, metrics, mcp_status, tail, rx, rcounter, completed,
                   statusVars, rateVars, connVars,
                   admitVars, apiVars, extVars>>

\* SystemEvent::ToolCalled { name: call.tool_name.clone(), id: call.id }
ToolCalled(call) == [tag |-> "ToolCalled", name |-> call.name, id |-> call.id]

\* record_tool_call, second statement: let _ = self.event_tx.send(ToolCalled{..})
record_tool_call_send(t) ==
    /\ rpc[t] = "send"
    /\ tail' = send(tail)
    /\ behind' = fallen_behind(send(tail))
    /\ toolCalled' = IF send(tail) = tail THEN toolCalled
                     ELSE insert(toolCalled, send(tail), ToolCalled(rcall[t]).id)
    /\ rpc' = [rpc EXCEPT ![t] = "get"]
    /\ UNCHANGED <<rxSub, observed, tool_calls, metrics, mcp_status, rx, rcall, rcounter,
                   nextId, appended, completed, statusVars, rateVars,
                   connVars,
                   admitVars, apiVars, sideVars, xcall, requests, responses, uncleaned,
                   cfgVars, instVars>>

\* record_tool_call, third statement: the counter is read; the map guard is
\* released at the end of the statement.
record_tool_call_get(t) ==
    /\ rpc[t] = "get"
    /\ rcounter' = [rcounter EXCEPT ![t] = get_counter(metrics, metric_key(rcall[t].name))]
    /\ rpc' = [rpc EXCEPT ![t] = "insert"]
    /\ UNCHANGED <<busVars, appVars, rcall, nextId, appended, completed, statusVars,
                   rateVars, connVars,
                   admitVars, apiVars, extVars>>

\* record_tool_call, fourth statement: insert(key, Counter(counter + 1)); Ok(())
record_tool_call_insert(t) ==
    /\ rpc[t] = "insert"
    /\ metrics' = insert(metrics, metric_key(rcall[t].name), Counter(rcounter[t] + 1))
    /\ completed' = [completed EXCEPT ![rcall[t].name] = @ + 1]
    /\ rpc' = [rpc EXCEPT ![t] = "idle"]
    /\ rcall' = [rcall EXCEPT ![t] = None]
    /\ rcounter' = [rcounter EXCEPT ![t] = 0]
    /\ recRet' = [recRet EXCEPT ![t] = "Ok"]
    /\ UNCHANGED <<busVars, tool_calls, mcp_status, tail, rx, nextId, appended,
                   statusVars, rateVars, connVars, admitVars, sendRet, recent,
                   executions, lastExec, extVars>>

\* add_tool_call: the push alone.
add_tool_call(t, name, outcome) ==
    /\ rpc[t] = "idle"
    /\ LET call == BuildCall(name, nextId + 1, outcome) IN
           /\ tool_calls' = push(tool_calls, call)
           /\ appended' = appended \cup {call.id}
    /\ nextId' = nextId + 1
    /\ UNCHANGED <<busVars, metrics, mcp_status, tail, rx, rpc, rcall, rcounter,
                   completed, statusVars, rateVars, connVars,
                   admitVars, apiVars, extVars>>

(***************************************************************************)
(* Status cell (ArcSwap<McpStatus>) and its callers                        *)
(***************************************************************************)
\* ArcSwap::load: the snapshot the cell points to, whole.
load(cell) == cell

\* A store that writes the fields it changes into the visible value.
store_in_place(cell, new) ==
    [cell EXCEPT !.last_heartbeat = new.last_heartbeat, !.connected = new.connected]

\* ArcSwap::store: the cell points to the new snapshot.
store(cell, new) == new

\* AppState::get_status, debug_state: a load alone.
get_status(t) ==
    /\ spc[t] = "idle"
    /\ sloaded' = [sloaded EXCEPT ![t] = load(mcp_status)]
    /\ UNCHANGED <<busVars, appVars, recVars, rateVars, spc, skind, utcNow, storedSnaps,
                   connVars,
                   admitVars, apiVars, extVars>>

\* A whole snapshot stored by a collaborator: main() at startup.
main_store(t) ==
    /\ spc[t] = "idle"
    /\ LET new == McpStatus_main(utcNow) IN
         /\ mcp_status' = store(mcp_status, new)
         /\ storedSnaps' = storedSnaps \cup {new}
    /\ UNCHANGED <<busVars, tool_calls, metrics, tail, rx, recVars, rateVars, spc, skind,
                   sloaded, utcNow, connVars,
                   admitVars, apiVars, extVars>>

\* handlers::get_status and handlers::get_heartbeat, first statement:
\* let mut status = data.mcp_status.load().as_ref().clone()
handler_load(t) ==
    /\ spc[t] = "idle"
    /\ \E k \in {"get_status", "get_heartbeat"} : skind' = [skind EXCEPT ![t] = k]
    /\ sloaded' = [sloaded EXCEPT ![t] = load(mcp_status)]
    /\ spc' = [spc EXCEPT ![t] = "loaded"]
    /\ UNCHANGED <<busVars, appVars, recVars, rateVars, utcNow, storedSnaps, connVars,
                   admitVars, apiVars, extVars>>

\* A handler that builds the status it stores anew.
handler_status_fresh(k, status, now) ==
    [McpStatus_default EXCEPT !.last_heartbeat = Some(now)]

\* The copy the handler stores: the heartbeat set to now; get_heartbeat also
\* sets connected.
handler_status(k, status, now) ==
    IF k = "get_heartbeat"
    THEN [status EXCEPT !.last_heartbeat = Some(now), !.connected = TRUE]
    ELSE [status EXCEPT !.last_heartbeat = Some(now)]

\* handlers::get_status and handlers::get_heartbeat:
\* data.mcp_status.store(Arc::new(status.clone()))
handler_store(t) ==
    /\ spc[t] = "loaded"
    /\ LET new == handler_status(skind[t], sloaded[t], utcNow) IN
         /\ mcp_status' = store(mcp_status, new)
         /\ storedSnaps' = storedSnaps \cup {new}
    /\ spc' = [spc EXCEPT ![t] = "idle"]
    /\ skind' = [skind EXCEPT ![t] = "none"]
    /\ sloaded' = [sloaded EXCEPT ![t] = None]
    /\ UNCHANGED <<busVars, tool_calls, metrics, tail, rx, recVars, rateVars, utcNow, connVars,
                   admitVars, apiVars, extVars>>

\* The wall clock advances.
utc_tick ==
    /\ utcNow < MaxUtc
    /\ utcNow' = utcNow + 1
    /\ UNCHANGED <<busVars, appVars, recVars, rateVars, spc, skind, sloaded, storedSnaps,
                   connVars,
                   admitVars, apiVars, extVars>>

(***************************************************************************)
(* WebSocketRateLimiter (src/dashboard/websocket.rs)                       *)
(***************************************************************************)
\* Instant::duration_since: saturates at zero when the argument is later.
duration_since(now, earlier) == IF now >= earlier THEN now - earlier ELSE 0

\* A retain that keeps the timestamps of the whole table lifetime.
retain_all(timestamps, now) == timestamps

\* entry.retain(|&timestamp| now.duration_since(timestamp) < self.time_window)
retain(timestamps, now) ==
    SelectSeq(timestamps, LAMBDA ts : duration_since(now, ts) < time_window)

\* connections.entry(ip).or_insert_with(Vec::new)
entry(conns, ip) == IF ip \in DOMAIN conns THEN conns[ip] ELSE <<>>

\* check_rate_limit, first statement: let now = Instant::now(); the caller then
\* waits for the write lock.
check_rate_limit_now(t, ip) ==
    /\ lpc[t] = "idle"
    /\ rateCalls' = rateCalls + 1
    /\ lip' = [lip EXCEPT ![t] = ip]
    /\ lnow' = [lnow EXCEPT ![t] = instantNow]
    /\ lpc' = [lpc EXCEPT ![t] = "lock"]
    /\ UNCHANGED <<busVars, appVars, recVars, statusVars, connections, instantNow,
                   callLog, connVars,
                   admitVars, apiVars, extVars>>

\* A rate limiter that counts the attempts of all addresses together.
check_rate_limit_shared(conns, ip, now) ==
    LET kept == retain(entry(conns, "10.0.0.1"), now)
        allowed == ~(Len(kept) >= max_connections_per_ip)
    IN [allowed |-> allowed,
        connections |-> insert(conns, "10.0.0.1",
                               IF allowed THEN Append(kept, now) ELSE kept)]

\* check_rate_limit, under the write lock, as a function of the table: prune
\* the entry, compare with the limit, record the new timestamp; the value
\* returned and the table left behind.
check_rate_limit(conns, ip, now) ==
    LET kept == retain(entry(conns, ip), now)
        allowed == ~(Len(kept) >= max_connections_per_ip)
    IN [allowed |-> allowed,
        connections |-> insert(conns, ip, IF allowed THEN Append(kept, now) ELSE kept)]

\* check_rate_limit, under the write lock.  uncleaned follows the same calls
\* on a table no cleanup has touched.
check_rate_limit_locked(t) ==
    /\ lpc[t] = "lock"
    /\ LET call == check_rate_limit(connections, lip[t], lnow[t])
       IN /\ connections' = call.connections
          /\ callLog' = [callLog EXCEPT ![lip[t]] =
                           Append(@, [now |-> lnow[t], allowed |-> call.allowed])]
          /\ lret' = [lret EXCEPT ![t] = Some(call.allowed)]
    /\ uncleaned' = check_rate_limit(uncleaned, lip[t], lnow[t]).connections
    /\ lpc' = [lpc EXCEPT ![t] = "idle"]
    /\ lip' = [lip EXCEPT ![t] = "none"]
    /\ lnow' = [lnow EXCEPT ![t] = 0]
    /\ UNCHANGED <<busVars, appVars, recVars, statusVars, instantNow, rateCalls,
                   connVars, apc, areq, aadm, aresp, apiVars,
                   sideVars, toolCalled, xcall, requests, responses, cfgVars, instVars>>

\* A cleanup that empties the table.
cleanup_clear(conns, now) == <<>>

\* cleanup: under the write lock, prune every entry with now = Instant::now()
\* and keep the entries that are not empty afterwards. No code of the
\* repository calls it.
cleanup(conns, now) ==
    [ip \in {a \in DOMAIN conns : retain(conns[a], now) # <<>>} |->
        retain(conns[ip], now)]

\* A caller of cleanup, between two calls of check_rate_limit.
cleanup_call ==
    /\ \A t \in RateTasks : lpc[t] = "idle"
    /\ connections' = cleanup(connections, instantNow)
    /\ UNCHANGED <<busVars, appVars, recVars, statusVars, instantNow, lpc, lip, lnow,
                   rateCalls, callLog, connVars, admitVars, apiVars, extVars>>

\* The monotonic clock advances.
instant_tick ==
    /\ instantNow + TickStep <= MaxInstant
    /\ instantNow' = instantNow + TickStep
    /\ UNCHANGED <<busVars, appVars, recVars, statusVars, connections, lpc, lip, lnow,
                   rateCalls, callLog, connVars,
                   admitVars, apiVars, extVars>>

(***************************************************************************)
(* Stream connections (src/dashboard/websocket.rs).  Connection c reads    *)
(* the event channel through receiver c.                                   *)
(***************************************************************************)
Conns == {"rx1"}

Terminated(c) == cpc[c] \in {"done", "panicked"}

\* recv would return Err(Lagged) / Ok for receiver c now.  (Err(Closed) needs
\* every Sender dropped; the AppState that holds it outlives the connections.)
recv_is_lagged(c) == rx[c].next < oldest_retained(tail)
recv_is_ok(c) == ~recv_is_lagged(c) /\ rx[c].next < tail

\* websocket_handler / sse_handler: subscribe and enter the loop.
connect(c) ==
    /\ Scheduled
    /\ ckind[c] = "none"
    /\ \E k \in {"ws", "sse"} : ckind' = [ckind EXCEPT ![c] = k]
    /\ rx' = [rx EXCEPT ![c] = [live |-> TRUE, next |-> subscribe_position(tail)]]
    /\ rxSub' = [rxSub EXCEPT ![c] = tail]
    /\ cpc' = [cpc EXCEPT ![c] = "loop"]
    /\ UNCHANGED <<tool_calls, metrics, mcp_status, tail, observed, behind,
                   recVars, statusVars, rateVars, peer, inbound, recvOff, trigger,
                   admitVars, apiVars, extVars>>

\* The client drops the underlying connection without a Close frame.
peer_close(c) ==
    /\ cpc[c] = "loop"
    /\ peer[c] = "open"
    /\ peer' = [peer EXCEPT ![c] = "closed"]
    /\ UNCHANGED <<appVars, busVars, recVars, statusVars, rateVars, ckind, cpc, inbound,
                   recvOff, trigger,
                   admitVars, apiVars, extVars>>

\* select!, first branch: Some(msg) = msg_stream.next() with a Text frame or
\* any frame matched by `_ => {}`: the select! completes and the loop iterates.
ws_inbound_frame(c) ==
    /\ ckind[c] = "ws" /\ cpc[c] = "loop"
    /\ peer[c] = "open" /\ inbound[c] = "open"
    /\ recvOff' = [recvOff EXCEPT ![c] = FALSE]
    /\ UNCHANGED <<appVars, busVars, recVars, statusVars, rateVars, ckind, cpc, peer,
                   inbound, trigger,
                   admitVars, apiVars, extVars>>

\* select!, first branch: Ok(Message::Close(_)) => break
ws_inbound_close(c) ==
    /\ ckind[c] = "ws" /\ cpc[c] = "loop"
    /\ peer[c] = "open" /\ inbound[c] = "open"
    /\ cpc' = [cpc EXCEPT ![c] = "done"]
    /\ trigger' = [trigger EXCEPT ![c] = "close"]
    /\ rx' = [rx EXCEPT ![c].live = FALSE]
    /\ UNCHANGED <<tool_calls, metrics, mcp_status, tail, busVars, recVars,
                   statusVars, rateVars, ckind, peer, inbound, recvOff,
                   admitVars, apiVars, extVars>>

\* select!, first branch: msg_stream.next() yields None, which does not match
\* Some(msg): the branch is disabled.  With the recv branch disabled too no
\* branch is left and select! panics (there is no else branch).
ws_inbound_end(c) ==
    /\ ckind[c] = "ws" /\ cpc[c] = "loop"
    /\ peer[c] = "closed" /\ inbound[c] = "open"
    /\ inbound' = [inbound EXCEPT ![c] = "ended"]
    /\ cpc' = [cpc EXCEPT ![c] = IF recvOff[c] THEN "panicked" ELSE "loop"]
    /\ rx' = [rx EXCEPT ![c].live = ~recvOff[c]]
    /\ UNCHANGED <<tool_calls, metrics, mcp_status, tail, busVars, recVars,
                   statusVars, rateVars, ckind, peer, recvOff, trigger,
                   admitVars, apiVars, extVars>>

\* select!, second branch: Ok(event) = event_rx.recv(), then
\* session.text(event_json).await, which fails once the connection is closed.
ws_recv_ok(c) ==
    /\ ckind[c] = "ws" /\ cpc[c] = "loop"
    /\ ~recvOff[c]
    /\ recv_is_ok(c)
    /\ Scheduled /\ Len(observed[c]) < MaxRecv
    /\ observed' = [observed EXCEPT ![c] = Append(@, RecvOk(rx[c].next + 1, tail))]
    /\ rx' = [rx EXCEPT ![c] = [live |-> peer[c] = "open", next |-> @.next + 1]]
    /\ cpc' = [cpc EXCEPT ![c] = IF peer[c] = "open" THEN "loop" ELSE "done"]
    /\ trigger' = [trigger EXCEPT ![c] = IF peer[c] = "open" THEN @ ELSE "write"]
    /\ UNCHANGED <<tool_calls, metrics, mcp_status, tail, rxSub, behind,
                   recVars, statusVars, rateVars, ckind, peer, inbound, recvOff,
                   admitVars, apiVars, extVars>>

\* select!, second branch: event_rx.recv() returns Err(Lagged), which does not
\* match Ok(event): the branch is disabled and select! goes on
\* waiting for msg_stream; with that branch disabled too, select! panics.
ws_recv_err(c) ==
    /\ ckind[c] = "ws" /\ cpc[c] = "loop"
    /\ ~recvOff[c]
    /\ recv_is_lagged(c)
    /\ Scheduled /\ Len(observed[c]) < MaxRecv
    /\ observed' = [observed EXCEPT ![c] =
                      Append(@, RecvLagged(oldest_retained(tail) - rx[c].next, tail))]
    /\ rx' = [rx EXCEPT ![c] =
                [live |-> inbound[c] = "open", next |-> oldest_retained(tail)]]
    /\ trigger' = [trigger EXCEPT ![c] = "recv_err"]
    /\ recvOff' = [recvOff EXCEPT ![c] = TRUE]
    /\ cpc' = [cpc EXCEPT ![c] = IF inbound[c] = "ended" THEN "panicked" ELSE "loop"]
    /\ UNCHANGED <<tool_calls, metrics, mcp_status, tail, rxSub, behind,
                   recVars, statusVars, rateVars, ckind, peer, inbound,
                   admitVars, apiVars, extVars>>

\* sse_handler: while let Ok(event) = event_rx.recv().await { yield frame }
\* The frame is written to the client; the write fails once it is gone.
sse_recv_ok(c) ==
    /\ ckind[c] = "sse" /\ cpc[c] = "loop"
    /\ recv_is_ok(c)
    /\ Scheduled /\ Len(observed[c]) < MaxRecv
    /\ observed' = [observed EXCEPT ![c] = Append(@, RecvOk(rx[c].next + 1, tail))]
    /\ rx' = [rx EXCEPT ![c] = [live |-> peer[c] = "open", next |-> @.next + 1]]
    /\ cpc' = [cpc EXCEPT ![c] = IF peer[c] = "open" THEN "loop" ELSE "done"]
    /\ trigger' = [trigger EXCEPT ![c] = IF peer[c] = "open" THEN @ ELSE "write"]
    /\ UNCHANGED <<tool_calls, metrics, mcp_status, tail, rxSub, behind,
                   recVars, statusVars, rateVars, ckind, peer, inbound, recvOff,
                   admitVars, apiVars, extVars>>

\* sse_handler: recv returns Err(Lagged): the while let ends and with it the
\* stream.
sse_recv_err(c) ==
    /\ ckind[c] = "sse" /\ cpc[c] = "loop"
    /\ recv_is_lagged(c)
    /\ Scheduled /\ Len(observed[c]) < MaxRecv
    /\ observed' = [observed EXCEPT ![c] =
                      Append(@, RecvLagged(oldest_retained(tail) - rx[c].next, tail))]
    /\ rx' = [rx EXCEPT ![c].live = FALSE]
    /\ trigger' = [trigger EXCEPT ![c] = "recv_err"]
    /\ cpc' = [cpc EXCEPT ![c] = "done"]
    /\ UNCHANGED <<tool_calls, metrics, mcp_status, tail, rxSub, behind,
                   recVars, statusVars, rateVars, ckind, peer, inbound, recvOff,
                   admitVars, apiVars, extVars>>

\* sse_handler: the HTTP server drops the streaming body of a closed connection.
sse_body_dropped(c) ==
    /\ ckind[c] = "sse" /\ cpc[c] = "loop"
    /\ peer[c] = "closed"
    /\ rx' = [rx EXCEPT ![c].live = FALSE]
    /\ trigger' = [trigger EXCEPT ![c] = "close"]
    /\ cpc' = [cpc EXCEPT ![c] = "done"]
    /\ UNCHANGED <<tool_calls, metrics, mcp_status, tail, busVars, recVars,
                   statusVars, rateVars, ckind, peer, inbound, recvOff,
                   admitVars, apiVars, extVars>>

\* The task of connection c has something to wake it that is not a new event
\* or a new frame from the client.
task_ready(c) ==
    IF ckind[c] = "ws"
    THEN \/ inbound[c] = "open" /\ peer[c] = "closed"
         \/ ~recvOff[c] /\ (recv_is_ok(c) \/ recv_is_lagged(c))
    ELSE \/ peer[c] = "closed"
         \/ recv_is_ok(c) \/ recv_is_lagged(c)

(***************************************************************************)
(* Connection setup: websocket_handler up to the spawn of its loop, and    *)
(* sse_handler (src/dashboard/websocket.rs).  Handler t subscribes through *)
(* receiver receiver_of(t).                                                *)
(***************************************************************************)
receiver_of(t) == IF t = "h1" THEN "rx1" ELSE "rx2"

\* Config::default: security.websocket_allowed_origins.
websocket_allowed_origins == {"http://localhost:8080", "http://127.0.0.1:8080"}

\* Values of the Origin header.  OpaqueOrigins are values with a byte outside
\* visible ASCII, for which HeaderValue::to_str returns Err.
OpaqueOrigins == {"http://localhost:8080<0xFF>"}
OriginValues ==
    {"http://localhost:8080", "HTTP://LOCALHOST:8080", "http://malicious.com"}
        \cup OpaqueOrigins

\* req.headers().get("Origin")
OriginHeaders == {None} \cup {Some(v) : v \in OriginValues}

\* The requests a handler serves, with the Config it is given: the Origin
\* header and the configuration's development.enable_cors.
Requests == [origin : OriginHeaders, enable_cors : BOOLEAN]

\* HeaderValue::to_str
to_str(v) == IF v \in OpaqueOrigins THEN None ELSE Some(v)

\* An origin check that lets a request without Origin header pass.
validate_websocket_origin_or_missing(req) ==
    \/ req.enable_cors
    \/ req.origin = None
    \/ /\ to_str(req.origin.value) # None
       /\ to_str(req.origin.value).value \in websocket_allowed_origins

\* validate_websocket_origin
validate_websocket_origin(req) ==
    IF req.enable_cors THEN TRUE
    ELSE IF req.origin = None THEN FALSE
    ELSE IF to_str(req.origin.value) = None THEN FALSE
    ELSE to_str(req.origin.value).value \in websocket_allowed_origins

\* A handler that answers both rejections with the same response.
rejection_response_same(outcome) == "Forbidden"

\* The responses websocket_handler returns for the two rejections.
rejection_response(outcome) ==
    IF outcome = "RateLimited" THEN "TooManyRequests" ELSE "Forbidden"

\* A handler that validates the origin before it looks at the rate limit.
admission_origin_first(allowed, req) ==
    IF ~validate_websocket_origin(req) THEN "OriginRejected"
    ELSE IF ~allowed THEN "RateLimited"
    ELSE "Allowed"

\* websocket_handler, the two early returns in the order of the code: the
\* result of check_rate_limit is looked at first, validate_websocket_origin is
\* called only if it was true.
admission(allowed, req) ==
    IF ~allowed THEN "RateLimited"
    ELSE IF ~validate_websocket_origin(req) THEN "OriginRejected"
    ELSE "Allowed"

\* websocket_handler: check_rate_limit returned false; 429 is returned,
\* whatever the request's Origin header.
ws_rate_limited(t) ==
    /\ apc[t] = "idle"
    /\ lret[t] = Some(FALSE)
    /\ lret' = [lret EXCEPT ![t] = None]
    /\ \E req \in Requests :
         /\ areq' = [areq EXCEPT ![t] = req]
         /\ aadm' = [aadm EXCEPT ![t] = admission(FALSE, req)]
         /\ aresp' = [aresp EXCEPT ![t] = rejection_response(admission(FALSE, req))]
    /\ UNCHANGED <<appVars, busVars, recVars, statusVars, rateVars, connVars, apc, apiVars,
                   extVars>>

\* websocket_handler: check_rate_limit returned true; the origin is validated
\* and 403 is returned if it is not allowed.
ws_validate_origin(t) ==
    /\ apc[t] = "idle"
    /\ lret[t] = Some(TRUE)
    /\ lret' = [lret EXCEPT ![t] = None]
    /\ \E req \in Requests :
         /\ areq' = [areq EXCEPT ![t] = req]
         /\ aadm' = [aadm EXCEPT ![t] = admission(TRUE, req)]
         /\ IF admission(TRUE, req) = "Allowed"
            THEN /\ aresp' = [aresp EXCEPT ![t] = "none"]
                 /\ apc' = [apc EXCEPT ![t] = "handle"]
            ELSE /\ aresp' = [aresp EXCEPT ![t] = rejection_response(admission(TRUE, req))]
                 /\ apc' = apc
    /\ UNCHANGED <<appVars, busVars, recVars, statusVars, rateVars, connVars, apiVars,
                   extVars>>

\* websocket_handler: actix_ws::handle; on a handshake error the handler
\* returns it, otherwise it subscribes, spawns the loop and returns the
\* upgrade response.
ws_handle(t) ==
    /\ apc[t] = "handle"
    /\ \E handshake \in BOOLEAN :
       IF handshake
       THEN /\ rx' = [rx EXCEPT ![receiver_of(t)] =
                        [live |-> TRUE, next |-> subscribe_position(tail)]]
            /\ rxSub' = [rxSub EXCEPT ![receiver_of(t)] = tail]
            /\ aresp' = [aresp EXCEPT ![t] = "SwitchingProtocols"]
            /\ apc' = [apc EXCEPT ![t] = "streaming"]
       ELSE /\ aresp' = [aresp EXCEPT ![t] = "BadRequest"]
            /\ apc' = [apc EXCEPT ![t] = "idle"]
            /\ UNCHANGED <<rx, rxSub, apiVars, extVars>>
    /\ UNCHANGED <<tool_calls, metrics, mcp_status, tail, observed, behind, recVars,
                   statusVars, rateVars, connVars, lret, areq, aadm, apiVars,
                   extVars>>

\* sse_handler: subscribe and return the streaming response.
sse_handler(t) ==
    /\ apc[t] = "idle"
    /\ lpc[t] = "idle"
    /\ lret[t] = None
    /\ rx' = [rx EXCEPT ![receiver_of(t)] =
                [live |-> TRUE, next |-> subscribe_position(tail)]]
    /\ rxSub' = [rxSub EXCEPT ![receiver_of(t)] = tail]
    /\ areq' = [areq EXCEPT ![t] = None]
    /\ aadm' = [aadm EXCEPT ![t] = "none"]
    /\ aresp' = [aresp EXCEPT ![t] = "Ok"]
    /\ apc' = [apc EXCEPT ![t] = "streaming"]
    /\ UNCHANGED <<tool_calls, metrics, mcp_status, tail, observed, behind, recVars,
                   statusVars, rateVars, connVars, lret, apiVars,
                   extVars>>

\* The stream of a connection ends and its receiver is dropped.
stream_end(t) ==
    /\ apc[t] = "streaming"
    /\ rx' = [rx EXCEPT ![receiver_of(t)].live = FALSE]
    /\ areq' = [areq EXCEPT ![t] = None]
    /\ aadm' = [aadm EXCEPT ![t] = "none"]
    /\ aresp' = [aresp EXCEPT ![t] = "none"]
    /\ apc' = [apc EXCEPT ![t] = "idle"]
    /\ UNCHANGED <<tool_calls, metrics, mcp_status, tail, busVars, recVars,
                   statusVars, rateVars, connVars, lret, apiVars,
                   extVars>>

(***************************************************************************)
(* The AppState API (src/shared/state.rs) and the tools that use it        *)
(* (src/server/tools/http.rs, src/server/tools/filesystem.rs)              *)
(***************************************************************************)
\* Sender::send(..).map(|_| ()): Err(SendError) when there is no receiver.
send_result == IF receiver_count = 0 THEN "Err" ELSE "Ok"

\* send_event: self.event_tx.send(event).map(|_| ())
send_event ==
    /\ tail < MaxPublish
    /\ sendRet' = [call |-> "send_event", ret |-> send_result]
    /\ tail' = send(tail)
    /\ behind' = fallen_behind(send(tail))
    /\ UNCHANGED <<tool_calls, metrics, mcp_status, rx, rxSub, observed, recVars,
                   statusVars, rateVars, connVars, admitVars, recRet, recent,
                   executions, lastExec, extVars>>

\* send_event_details: the kind of SystemEvent an event type is converted to.
EventTypes == {"file_read", "http_request", "system_info", "other"}
simple_event(event_type) == IF event_type = "other" THEN "Error" ELSE "ToolCalled"

\* send_event_details: convert, then self.event_tx.send(simple_event).map(|_| ())
send_event_details ==
    /\ tail < MaxPublish
    /\ \E event_type \in EventTypes :
         simple_event(event_type) \in {"ToolCalled", "Error"}
    /\ sendRet' = [call |-> "send_event_details", ret |-> send_result]
    /\ tail' = send(tail)
    /\ behind' = fallen_behind(send(tail))
    /\ UNCHANGED <<tool_calls, metrics, mcp_status, rx, rxSub, observed, recVars,
                   statusVars, rateVars, connVars, admitVars, recRet, recent,
                   executions, lastExec, extVars>>

\* update_metric: self.metrics.insert(key.to_string(), value)
update_metric(key, value) ==
    /\ metrics' = insert(metrics, key, value)
    /\ UNCHANGED <<tool_calls, mcp_status, tail, rx, busVars, recVars, statusVars,
                   rateVars, connVars, admitVars, apiVars, extVars>>

\* A get_tool_calls that returns the oldest records first.
get_tool_calls_oldest(history, limit) ==
    SubSeq(history, 1, IF limit < Len(history) THEN limit ELSE Len(history))

\* calls.iter().rev().take(limit).cloned().collect()
get_tool_calls(history, limit) ==
    [i \in 1..(IF limit < Len(history) THEN limit ELSE Len(history)) |->
        history[Len(history) - i + 1]]

\* A caller of get_tool_calls(limit).
get_tool_calls_call(limit) ==
    /\ recent' = [limit |-> limit, at |-> Len(tool_calls),
                  calls |-> get_tool_calls(tool_calls, limit)]
    /\ UNCHANGED <<appVars, busVars, recVars, statusVars, rateVars, connVars,
                   admitVars, sendRet, recRet, executions, lastExec,
                   extVars>>

\* How an execution of get_request ends: it returns early with an error
\* (validate_url, create_client, request.send, response.text, size check), or
\* it gets a response with a success or an error status.
GetRequestOutcomes == {"InvalidUrl", "RequestFailed", "TooLarge", "Status200", "Status500"}

\* get_request
get_request(outcome) ==
    /\ executions' = executions + 1
    /\ lastExec' = [tool |-> "http_get",
                    failed |-> outcome # "Status200"]
    /\ IF outcome \in {"Status200", "Status500"}
       THEN LET result == IF outcome = "Status200"
                          THEN ToolCallResult_Success("body")
                          ELSE ToolCallResult_Error("HTTP 500")
                call == ToolCall_complete(ToolCall_new("http_get", nextId + 1), result, 1)
            IN  /\ tool_calls' = push(tool_calls, call)
                /\ appended' = appended \cup {call.id}
                /\ nextId' = nextId + 1
                /\ metrics' = insert(insert(insert(metrics,
                                "http_requests_total", Counter(1)),
                                "http_request_duration_ms", Gauge(1)),
                                "http_response_size_bytes", Gauge(4))
                /\ tail' = send(tail)
                /\ behind' = fallen_behind(send(tail))
       ELSE UNCHANGED <<tool_calls, appended, nextId, metrics, tail, behind>>
    /\ UNCHANGED <<mcp_status, rx, rxSub, observed, rpc, rcall, rcounter, completed,
                   statusVars, rateVars, connVars, admitVars, sendRet, recRet,
                   recent, extVars>>

\* How an execution of read_file ends: with the content, or with an error.
ReadFileOutcomes == {"Read", "NotFound"}

\* read_file
read_file(outcome) ==
    /\ executions' = executions + 1
    /\ lastExec' = [tool |-> "read_file", failed |-> outcome # "Read"]
    /\ LET result == IF outcome = "Read"
                     THEN ToolCallResult_Success("content")
                     ELSE ToolCallResult_Error("File not found")
           call == ToolCall_complete(ToolCall_new("read_file", nextId + 1), result, 1)
           counted == insert(insert(metrics, "file_reads_total", Counter(1)),
                             "file_read_duration_ms", Histogram(<<1>>))
       IN  /\ tool_calls' = push(tool_calls, call)
           /\ appended' = appended \cup {call.id}
           /\ nextId' = nextId + 1
           /\ metrics' = IF outcome = "Read"
                         THEN insert(counted, "file_read_bytes", Histogram(<<7>>))
                         ELSE counted
    /\ UNCHANGED <<mcp_status, tail, rx, busVars, rpc, rcall, rcounter, completed,
                   statusVars, rateVars, connVars, admitVars, sendRet, recRet,
                   recent, extVars>>

(***************************************************************************)
(* AppState.active_sessions and the callers of SessionInfo::update_activity *)
(* (src/shared/state.rs)                                                   *)
(***************************************************************************)
Callers == {"u1", "u2"}
\* The tasks that take locks, and the locks: the history, the rate limiter's
\* table, the shard of a metrics entry.
LockTasks == {"k1", "k2", "k3"}
Locks == {"tool_calls", "connections", "metrics"}
\* The ids SessionInfo::new() hands out, in this order.
SessionIds == {1, 2}

\* SessionInfo::new: a fresh id, request_count 0
SessionInfo_new(id, now) ==
    [id |-> id, started_at |-> now, request_count |-> 0, last_activity |-> now]

\* An entry that hands out guards without excluding the other holders.
entry_free_always(g, id) == TRUE

\* The lock of an entry's shard: a RefMut of the entry excludes every other
\* access to it (two keys of one shard exclude each other as well, which only
\* removes interleavings).
entry_free(g, id) == \A t \in Callers : g[t] # id

\* DashMap::remove: everything but the entry of id.
remove(m, id) == [x \in (DOMAIN m) \ {id} |-> m[x]]

\* state.active_sessions.insert(session.id, SessionInfo::new())
session_insert ==
    /\ nextSession' = nextSession + 1
    /\ active_sessions' = insert(active_sessions, nextSession + 1,
                                 SessionInfo_new(nextSession + 1, utcNow))
    /\ UNCHANGED <<appVars, busVars, recVars, statusVars, rateVars, connVars,
                   admitVars, apiVars, evVars, outVars, watchVars,
                   lockVars, guard, upc, uloaded, updates>>

\* state.active_sessions.get_mut(&id).unwrap(): waits for the entry, then
\* holds its guard.
get_mut(t, id) ==
    /\ upc[t] = "idle"
    /\ id \in DOMAIN active_sessions
    /\ entry_free(guard, id)
    /\ guard' = [guard EXCEPT ![t] = id]
    /\ upc' = [upc EXCEPT ![t] = "held"]
    /\ UNCHANGED <<appVars, busVars, recVars, statusVars, rateVars, connVars,
                   admitVars, apiVars, evVars, outVars, watchVars,
                   lockVars, active_sessions, uloaded, updates,
                   nextSession>>

\* update_activity: self.last_activity = Utc::now(), and the read of
\* self.request_count += 1
update_activity_load(t) ==
    /\ upc[t] = "held"
    /\ guard[t] \in DOMAIN active_sessions
    /\ active_sessions' = [active_sessions EXCEPT ![guard[t]].last_activity = utcNow]
    /\ uloaded' = [uloaded EXCEPT ![t] = active_sessions[guard[t]].request_count]
    /\ upc' = [upc EXCEPT ![t] = "loaded"]
    /\ UNCHANGED <<appVars, busVars, recVars, statusVars, rateVars, connVars,
                   admitVars, apiVars, evVars, outVars, watchVars,
                   lockVars, guard, updates, nextSession>>

\* update_activity: the write of self.request_count += 1, and the return
update_activity_store(t) ==
    /\ upc[t] = "loaded"
    /\ active_sessions' =
           IF guard[t] \in DOMAIN active_sessions
           THEN [active_sessions EXCEPT ![guard[t]].request_count = uloaded[t] + 1]
           ELSE active_sessions
    /\ updates' = [updates EXCEPT ![guard[t]][t] = @ + 1]
    /\ upc' = [upc EXCEPT ![t] = "held"]
    /\ UNCHANGED <<appVars, busVars, recVars, statusVars, rateVars, connVars,
                   admitVars, apiVars, evVars, outVars, watchVars,
                   lockVars, guard, uloaded, nextSession>>

\* The guard goes out of scope.
drop_guard(t) ==
    /\ upc[t] = "held"
    /\ guard' = [guard EXCEPT ![t] = 0]
    /\ upc' = [upc EXCEPT ![t] = "idle"]
    /\ UNCHANGED <<appVars, busVars, recVars, statusVars, rateVars, connVars,
                   admitVars, apiVars, evVars, outVars, watchVars,
                   lockVars, active_sessions, uloaded, updates,
                   nextSession>>

\* state.active_sessions.remove(&id): waits for the entry as well.
session_remove(id) ==
    /\ id \in DOMAIN active_sessions
    /\ entry_free(guard, id)
    /\ active_sessions' = remove(active_sessions, id)
    /\ UNCHANGED <<appVars, busVars, recVars, statusVars, rateVars, connVars,
                   admitVars, apiVars, evVars, outVars, watchVars,
                   lockVars, guard, upc, uloaded, updates, nextSession>>

(***************************************************************************)
(* The messages of the stream connections: the event arm of                *)
(* websocket_handler and the body of sse_handler (src/dashboard/websocket.rs)*)
(***************************************************************************)
\* serde_json values: an object is a record of its fields.
JsonObject(fields) == [kind |-> "object", fields |-> fields]

\* BrowserReloadMessage::reload
BrowserReloadMessage_reload == [type |-> "reload", action |-> "refresh"]

\* serde_json::to_string(&reload_msg): the text of the message.
reload_text == "{\"type\":\"reload\",\"action\":\"refresh\"}"

\* The payloads of SystemEvent::Custom: the reload message the dashboard
\* publishes, and a text that is no JSON document.
Payloads == {reload_text, "backend restarted"}

\* serde_json::from_str::<Value>(&payload)
from_str(payload) ==
    IF payload = reload_text
    THEN [tag |-> "Ok", value |-> JsonObject(BrowserReloadMessage_reload)]
    ELSE [tag |-> "Err"]

\* The ids of the published tool calls, and Uuid's string form (hyphenated),
\* which its Serialize and its Display both write.
EventIds == {1, 2}
uuid_to_string(id) ==
    "00000000-0000-4000-8000-00000000000"
        \o <<"1", "2", "3", "4", "5", "6", "7", "8", "9", "a", "b", "c", "d", "e", "f">>[id]

\* The events a connection can receive.
SystemEvents ==
    {[variant |-> "McpConnected"], [variant |-> "McpDisconnected"]}
    \cup {[variant |-> "ToolCalled", name |-> "echo", id |-> i] : i \in EventIds}
    \cup {[variant |-> "ResourceAccessed", uri |-> "config://server"]}
    \cup {[variant |-> "Error", message |-> "boom"]}
    \cup {[variant |-> "Custom", payload |-> p] : p \in Payloads}

\* A DateTime<Utc> as serde writes it, as to_rfc3339() writes it, and as
\* format("%H:%M:%S") writes it.
serialize_datetime(now) == [at |-> now, form |-> "rfc3339", offset |-> "Z"]
to_rfc3339(now) == [at |-> now, form |-> "rfc3339", offset |-> "+00:00"]
format_hms(now) == [at |-> now, form |-> "%H:%M:%S"]

\* websocket_handler, event arm: event_json
ws_event_json(event, now) ==
    CASE event.variant = "McpConnected" ->
           JsonObject([type |-> "mcp_connected", timestamp |-> serialize_datetime(now)])
      [] event.variant = "McpDisconnected" ->
           JsonObject([type |-> "mcp_disconnected", timestamp |-> serialize_datetime(now)])
      [] event.variant = "ToolCalled" ->
           JsonObject([type |-> "tool_called", name |-> event.name,
                       id |-> uuid_to_string(event.id),
                       timestamp |-> serialize_datetime(now)])
      [] event.variant = "ResourceAccessed" ->
           JsonObject([type |-> "resource_accessed", uri |-> event.uri,
                       timestamp |-> serialize_datetime(now)])
      [] event.variant = "Error" ->
           JsonObject([type |-> "error", message |-> event.message,
                       timestamp |-> serialize_datetime(now)])
      [] event.variant = "Custom" ->
           IF from_str(event.payload).tag = "Ok"
           THEN from_str(event.payload).value
           ELSE JsonObject([type |-> "custom", payload |-> event.payload,
                            timestamp |-> serialize_datetime(now)])

\* A tool-call fragment that leaves the id out.
tool_called_html_without_id(name, id, now) ==
    [template |-> "tool-call-event", time |-> format_hms(now), args |-> <<name>>]

\* sse_handler, ToolCalled: format!(.., Utc::now().format("%H:%M:%S"), name, id)
tool_called_html(name, id, now) ==
    [template |-> "tool-call-event", time |-> format_hms(now),
     args |-> <<name, uuid_to_string(id)>>]

\* sse_handler: the html fragment of an event: a template, the time and the
\* strings format! puts into it, in order.
sse_html(event, now) ==
    CASE event.variant = "McpConnected" ->
           [template |-> "alert-success", time |-> format_hms(now), args |-> <<>>]
      [] event.variant = "McpDisconnected" ->
           [template |-> "alert-warning", time |-> format_hms(now), args |-> <<>>]
      [] event.variant = "ToolCalled" ->
           tool_called_html(event.name, event.id, now)
      [] event.variant = "ResourceAccessed" ->
           [template |-> "resource-event", time |-> format_hms(now),
            args |-> <<event.uri>>]
      [] event.variant = "Error" ->
           [template |-> "alert-error", time |-> format_hms(now),
            args |-> <<event.message>>]

\* sse_handler: the JSON document of the data line
sse_event_json(event, now) ==
    CASE event.variant = "McpConnected" ->
           JsonObject([type |-> "connected", timestamp |-> to_rfc3339(now),
                       html |-> sse_html(event, now)])
      [] event.variant = "McpDisconnected" ->
           JsonObject([type |-> "disconnected", timestamp |-> to_rfc3339(now),
                       html |-> sse_html(event, now)])
      [] event.variant = "ToolCalled" ->
           JsonObject([type |-> "tool_called", name |-> event.name,
                       id |-> uuid_to_string(event.id),
                       timestamp |-> to_rfc3339(now),
                       html |-> sse_html(event, now)])
      [] event.variant = "ResourceAccessed" ->
           JsonObject([type |-> "resource_accessed", uri |-> event.uri,
                       timestamp |-> to_rfc3339(now),
                       html |-> sse_html(event, now)])
      [] event.variant = "Error" ->
           JsonObject([type |-> "error", message |-> event.message,
                       timestamp |-> to_rfc3339(now),
                       html |-> sse_html(event, now)])
      [] event.variant = "Custom" ->
           IF from_str(event.payload).tag = "Ok"
           THEN from_str(event.payload).value
           ELSE JsonObject([type |-> "custom", payload |-> event.payload,
                            timestamp |-> to_rfc3339(now)])

\* sse_handler: the name on the event line
sse_event_name(event) ==
    CASE event.variant = "McpConnected" -> "mcp_connected"
      [] event.variant = "McpDisconnected" -> "mcp_disconnected"
      [] event.variant = "ToolCalled" -> "tool_called"
      [] event.variant = "ResourceAccessed" -> "resource_accessed"
      [] event.variant = "Error" -> "error"
      [] event.variant = "Custom" -> "custom"

\* sse_handler: format!("event: {}\ndata: {}\n\n", ..), the lines of the frame
\* and what follows the last of them.
sse_event_data(event, now) ==
    [lines |-> <<[field |-> "event", value |-> sse_event_name(event)],
                 [field |-> "data", value |-> sse_event_json(event, now)]>>,
     end |-> "\n\n"]

\* websocket_handler, event arm: session.text(event_json.to_string())
ws_event(event) ==
    /\ wsOut' = Append(wsOut, [event |-> event,
                               frame |-> [opcode |-> "text",
                                          json |-> ws_event_json(event, utcNow)]])
    /\ UNCHANGED <<appVars, busVars, recVars, statusVars, rateVars, connVars,
                   admitVars, apiVars, evVars, sessVars, watchVars,
                   lockVars, sseOut>>

\* sse_handler, loop body: yield Ok(Bytes::from(event_data))
sse_event(event) ==
    /\ sseOut' = Append(sseOut, [event |-> event,
                                 frame |-> sse_event_data(event, utcNow)])
    /\ UNCHANGED <<appVars, busVars, recVars, statusVars, rateVars, connVars,
                   admitVars, apiVars, evVars, sessVars, watchVars,
                   lockVars, wsOut>>

(***************************************************************************)
(* HotReloadWatcher::start and its shutdown channel                        *)
(* (src/dashboard/hot_reload.rs)                                           *)
(***************************************************************************)
\* The directories start asks the watcher to watch.
WatchDirs == {"./static", "./templates", "./config", "./src"}

\* let _ = watcher.watch(path, ..): a directory that exists is watched, the
\* error for one that does not is dropped.
watch(dirs) == WatchDirs \cap dirs

\* A shutdown branch that takes only a sent value: Ok(_) = &mut shutdown_rx
shutdown_branch_on_value(chan) == chan = "value"

\* select!: the branch `_ = &mut shutdown_rx` is taken when the receiver
\* completes, with the value or with the error of a dropped sender.
shutdown_branch(chan) == chan \in {"value", "closed"}

\* start, up to the loop: new_debouncer(..).expect("Failed to create file
\* watcher"), then the four watch calls, in a working directory where dirs
\* exist.
start_watcher(created, dirs) ==
    /\ wpc = "not_started"
    /\ debouncer' = created
    /\ wdirs' = dirs
    /\ IF created = "Ok"
       THEN /\ watched' = watch(dirs)
            /\ wpc' = "select"
       ELSE /\ watched' = watched
            /\ wpc' = "panicked"
    /\ UNCHANGED <<appVars, busVars, recVars, statusVars, rateVars, connVars,
                   admitVars, apiVars, evVars, sessVars, outVars, lockVars, shutdown_rx,
                   wticks>>

\* start, the loop: the shutdown branch: break, then Ok(())
select_shutdown ==
    /\ wpc = "select"
    /\ shutdown_branch(shutdown_rx)
    /\ wpc' = "returned_ok"
    /\ UNCHANGED <<appVars, busVars, recVars, statusVars, rateVars, connVars,
                   admitVars, apiVars, evVars, sessVars, outVars, lockVars, wdirs,
                   watched, debouncer, shutdown_rx, wticks>>

\* start, the loop: the sleep branch: keep alive, next iteration
select_sleep ==
    /\ wpc = "select"
    /\ wticks' = wticks + 1
    /\ UNCHANGED <<appVars, busVars, recVars, statusVars, rateVars, connVars,
                   admitVars, apiVars, evVars, sessVars, outVars, lockVars, wpc, wdirs,
                   watched, debouncer, shutdown_rx>>

\* The holder of the sender: shutdown_tx.send(())
shutdown_send ==
    /\ shutdown_rx = "empty"
    /\ shutdown_rx' = "value"
    /\ UNCHANGED <<appVars, busVars, recVars, statusVars, rateVars, connVars,
                   admitVars, apiVars, evVars, sessVars, outVars, lockVars, wpc, wdirs,
                   watched, debouncer, wticks>>

\* The holder of the sender drops it without sending.
shutdown_drop ==
    /\ shutdown_rx = "empty"
    /\ shutdown_rx' = "closed"
    /\ UNCHANGED <<appVars, busVars, recVars, statusVars, rateVars, connVars,
                   admitVars, apiVars, evVars, sessVars, outVars, lockVars, wpc, wdirs,
                   watched, debouncer, wticks>>

(***************************************************************************)
(* The locks and the await points of the handlers (src/dashboard/handlers.rs, *)
(* src/shared/state.rs, src/dashboard/websocket.rs, src/server/tools/http.rs) *)
(***************************************************************************)
\* What a function does with locks and await points, in program order:
\* lock.read().await / lock.write().await, a guard of a DashMap shard taken
\* without an await, a guard going out of scope, an await on I/O.
AwaitLock(l, m) == [op |-> "await_lock", lock |-> l, mode |-> m]
TakeGuard(l, m) == [op |-> "take", lock |-> l, mode |-> m]
DropGuard(l) == [op |-> "drop", lock |-> l, mode |-> "none"]
AwaitIo == [op |-> "await_io", lock |-> "none", mode |-> "none"]

\* A get_metrics that asks for the history again while it holds its guard.
get_metrics_steps_nested ==
    <<AwaitLock("tool_calls", "read"), AwaitLock("tool_calls", "read"),
      DropGuard("tool_calls")>>

\* get_metrics: let tool_calls = data.tool_calls.read().await; the guard lives
\* to the end of the function, which has no other await.
get_metrics_steps ==
    <<AwaitLock("tool_calls", "read"), DropGuard("tool_calls")>>

\* record_tool_call: self.tool_calls.write().await.push(..), the guard a
\* temporary of that statement; metrics.get(..) and metrics.insert(..), each
\* with the guard of the shard for the length of the call.
record_tool_call_steps ==
    <<AwaitLock("tool_calls", "write"), DropGuard("tool_calls"),
      TakeGuard("metrics", "read"), DropGuard("metrics"),
      TakeGuard("metrics", "write"), DropGuard("metrics")>>

\* check_rate_limit: let mut connections = self.connections.write().await; the
\* guard lives to the return.
check_rate_limit_steps ==
    <<AwaitLock("connections", "write"), DropGuard("connections")>>

\* execute_tool: the tool runs without an await, then record_tool_call(..).await
execute_tool_steps == record_tool_call_steps

\* websocket_handler: check_rate_limit(ip).await; the task it spawns then waits
\* for frames and events.
websocket_handler_steps == check_rate_limit_steps \o <<AwaitIo>>

\* get_request: request.send().await and response.text().await, then
\* add_tool_call(..).await and the three update_metric calls.
get_request_steps ==
    <<AwaitIo, AwaitIo, AwaitLock("tool_calls", "write"), DropGuard("tool_calls"),
      TakeGuard("metrics", "write"), DropGuard("metrics"),
      TakeGuard("metrics", "write"), DropGuard("metrics"),
      TakeGuard("metrics", "write"), DropGuard("metrics")>>

Functions == {"get_metrics", "execute_tool", "websocket_handler", "get_request"}

steps(f) ==
    CASE f = "get_metrics" -> get_metrics_steps
      [] f = "execute_tool" -> execute_tool_steps
      [] f = "websocket_handler" -> websocket_handler_steps
      [] f = "get_request" -> get_request_steps

\* The step a running task is at.
current(t) == steps(khandler[t])[kstep[t]]

\* tokio::sync::RwLock and the lock of a DashMap shard: readers share, a writer
\* excludes every other guard; neither is reentrant.
compatible(l, m) ==
    \A u \in LockTasks : \A g \in kheld[u] :
        g.lock = l => (m = "read" /\ g.mode = "read")

\* The task goes on to its next step; at the end of the function every guard
\* still in scope is dropped.
proceed(t, held) ==
    IF kstep[t] = Len(steps(khandler[t]))
    THEN /\ khandler' = [khandler EXCEPT ![t] = "none"]
         /\ kstep' = [kstep EXCEPT ![t] = 0]
         /\ kheld' = [kheld EXCEPT ![t] = {}]
    ELSE /\ khandler' = khandler
         /\ kstep' = [kstep EXCEPT ![t] = @ + 1]
         /\ kheld' = [kheld EXCEPT ![t] = held]

\* A request arrives: a task starts to run the function.
task_start(t, f) ==
    /\ khandler[t] = "none"
    /\ khandler' = [khandler EXCEPT ![t] = f]
    /\ kstep' = [kstep EXCEPT ![t] = 1]
    /\ UNCHANGED <<appVars, busVars, recVars, statusVars, rateVars, connVars,
                   admitVars, apiVars, evVars, sessVars, outVars, watchVars, kwait,
                   kheld, kqueue>>

\* lock.read().await / lock.write().await, first poll: the guard at once when
\* nobody waits and the lock allows it, else the task joins the queue (the
\* lock is fair) and is suspended.
poll_lock(t) ==
    /\ khandler[t] # "none" /\ ~kwait[t]
    /\ current(t).op = "await_lock"
    /\ LET l == current(t).lock
           m == current(t).mode
       IN IF kqueue[l] = <<>> /\ compatible(l, m)
          THEN /\ proceed(t, kheld[t] \cup {[lock |-> l, mode |-> m]})
               /\ UNCHANGED <<kwait, kqueue>>
          ELSE /\ kqueue' = [kqueue EXCEPT ![l] = Append(@, t)]
               /\ kwait' = [kwait EXCEPT ![t] = TRUE]
               /\ UNCHANGED <<khandler, kstep, kheld>>
    /\ UNCHANGED <<appVars, busVars, recVars, statusVars, rateVars, connVars,
                   admitVars, apiVars, evVars, sessVars, outVars, watchVars>>

\* The lock wakes the first task of its queue when it can have the guard.
grant_lock(t) ==
    /\ khandler[t] # "none" /\ kwait[t]
    /\ current(t).op = "await_lock"
    /\ LET l == current(t).lock
           m == current(t).mode
       IN /\ kqueue[l] # <<>> /\ Head(kqueue[l]) = t
          /\ compatible(l, m)
          /\ kqueue' = [kqueue EXCEPT ![l] = Tail(@)]
          /\ proceed(t, kheld[t] \cup {[lock |-> l, mode |-> m]})
    /\ kwait' = [kwait EXCEPT ![t] = FALSE]
    /\ UNCHANGED <<appVars, busVars, recVars, statusVars, rateVars, connVars,
                   admitVars, apiVars, evVars, sessVars, outVars, watchVars>>

\* A DashMap call takes the guard of the shard; the thread waits for it
\* without suspending the task.
take_guard(t) ==
    /\ khandler[t] # "none" /\ ~kwait[t]
    /\ current(t).op = "take"
    /\ compatible(current(t).lock, current(t).mode)
    /\ proceed(t, kheld[t] \cup {[lock |-> current(t).lock, mode |-> current(t).mode]})
    /\ UNCHANGED <<appVars, busVars, recVars, statusVars, rateVars, connVars,
                   admitVars, apiVars, evVars, sessVars, outVars, watchVars, kwait,
                   kqueue>>

\* A guard goes out of scope.
guard_dropped(t) ==
    /\ khandler[t] # "none" /\ ~kwait[t]
    /\ current(t).op = "drop"
    /\ proceed(t, {g \in kheld[t] : g.lock # current(t).lock})
    /\ UNCHANGED <<appVars, busVars, recVars, statusVars, rateVars, connVars,
                   admitVars, apiVars, evVars, sessVars, outVars, watchVars, kwait,
                   kqueue>>

\* An await on I/O: the task is suspended.
io_suspend(t) ==
    /\ khandler[t] # "none" /\ ~kwait[t]
    /\ current(t).op = "await_io"
    /\ kwait' = [kwait EXCEPT ![t] = TRUE]
    /\ UNCHANGED <<appVars, busVars, recVars, statusVars, rateVars, connVars,
                   admitVars, apiVars, evVars, sessVars, outVars, watchVars, khandler,
                   kstep, kheld, kqueue>>

\* The I/O completes: the task runs again.
io_resume(t) ==
    /\ khandler[t] # "none" /\ kwait[t]
    /\ current(t).op = "await_io"
    /\ kwait' = [kwait EXCEPT ![t] = FALSE]
    /\ proceed(t, kheld[t])
    /\ UNCHANGED <<appVars, busVars, recVars, statusVars, rateVars, connVars,
                   admitVars, apiVars, evVars, sessVars, outVars, watchVars, kqueue>>

(***************************************************************************)
(* execute_tool (src/dashboard/handlers.rs)                                *)
(***************************************************************************)
\* The names execute_tool has an arm for; any other name is an unknown tool.
ExecutableTools ==
    {"read_file", "write_file", "list_directory", "http_get", "http_post",
     "system_info"}

\* execute_tool: the ToolCall it hands to record_tool_call. For an unknown
\* tool the record gets its result and error and is recorded at once; else
\* duration_ms is set after the match, then the result (io is the outcome of
\* the tool: "Ok" or "Err").
execute_tool_call(name, id, io) ==
    LET tool_call == [ToolCall_new(name, id) EXCEPT !.id = id] IN
    IF name \notin ExecutableTools
    THEN [tool_call EXCEPT
             !.result = Some(ToolCallResult_Error("Unknown tool: " \o name)),
             !.success = FALSE,
             !.error = Some("Unknown tool: " \o name)]
    ELSE IF io = "Ok"
    THEN [tool_call EXCEPT !.duration_ms = Some(1),
                           !.result = Some(ToolCallResult_Success("data")),
                           !.success = TRUE,
                           !.result_string = Some(to_string("data"))]
    ELSE [tool_call EXCEPT !.duration_ms = Some(1),
                           !.result = Some(ToolCallResult_Error("Failed")),
                           !.success = FALSE,
                           !.error = Some("Failed")]

\* An execute_tool whose arm for an unknown tool returns without recording.
execute_tool_unknown_unrecorded(t, name, io) ==
    /\ rpc[t] = "idle"
    /\ xcall[t] = None
    /\ requests' = requests + 1
    /\ LET call == execute_tool_call(name, nextId + 1, io) IN
           /\ xcall' = [xcall EXCEPT ![t] = call]
           /\ IF name \in ExecutableTools
              THEN /\ tool_calls' = push(tool_calls, call)
                   /\ rcall' = [rcall EXCEPT ![t] = call]
                   /\ appended' = appended \cup {call.id}
                   /\ rpc' = [rpc EXCEPT ![t] = "send"]
              ELSE UNCHANGED <<tool_calls, rcall, appended, rpc>>
    /\ nextId' = nextId + 1
    /\ UNCHANGED <<busVars, metrics, mcp_status, tail, rx, rcounter, completed,
                   statusVars, rateVars, connVars, admitVars, apiVars, sideVars,
                   toolCalled, responses, uncleaned, cfgVars, instVars>>

\* execute_tool, up to the first statement of record_tool_call (the push); the
\* task goes on with the other statements of record_tool_call.
execute_tool(t, name, io) ==
    /\ rpc[t] = "idle"
    /\ xcall[t] = None
    /\ requests' = requests + 1
    /\ LET call == execute_tool_call(name, nextId + 1, io) IN
           /\ tool_calls' = push(tool_calls, call)
           /\ rcall' = [rcall EXCEPT ![t] = call]
           /\ xcall' = [xcall EXCEPT ![t] = call]
           /\ appended' = appended \cup {call.id}
    /\ nextId' = nextId + 1
    /\ rpc' = [rpc EXCEPT ![t] = "send"]
    /\ UNCHANGED <<busVars, metrics, mcp_status, tail, rx, rcounter, completed,
                   statusVars, rateVars, connVars, admitVars, apiVars, sideVars,
                   toolCalled, responses, uncleaned, cfgVars, instVars>>

\* ExecuteToolResponse and the status of the HttpResponse that carries it:
\* 400 for an unknown tool, 200 otherwise; tool_call_id is
\* tool_call_id.to_string().
ExecuteToolResponse(call) ==
    [status |-> IF call.name \in ExecutableTools THEN "Ok" ELSE "BadRequest",
     success |-> call.success,
     error |-> call.error,
     tool_call_id |-> uuid_to_string(call.id)]

\* execute_tool, after record_tool_call(..).await returned: the response.
execute_tool_return(t) ==
    /\ xcall[t] # None
    /\ rpc[t] = "idle"
    /\ responses' = Append(responses, ExecuteToolResponse(xcall[t]))
    /\ xcall' = [xcall EXCEPT ![t] = None]
    /\ UNCHANGED <<appVars, busVars, recVars, statusVars, rateVars, connVars,
                   admitVars, apiVars, sideVars, toolCalled, requests, uncleaned,
                   cfgVars, instVars>>

(***************************************************************************)
(* Config::validate (src/shared/config.rs)                                 *)
(***************************************************************************)
\* The configurations validate is given: the fields it reads, each with a
\* value on either side of its checks.
Configs ==
    [dashboard_port : {0, 8080},
     dashboard_host : {"127.0.0.1", "0.0.0.0"},
     enable_cors : BOOLEAN,
     enable_debug_routes : BOOLEAN,
     max_tool_execution_time_ms : {0, 30000},
     http_timeout_seconds : {0, 30},
     max_file_size_bytes : {10 * 1024 * 1024, 100 * 1024 * 1024 + 1},
     requests_per_minute : {0, 60},
     burst_size : {0, 10}]

\* The environment variables is_development_mode reads.
Envs ==
    [RUST_LOG : {None, Some("info"), Some("debug"), Some("rust_mcp_server=trace")},
     CARGO_PKG_VERSION : {None, Some("0.1.0")}]

\* log.contains("debug") || log.contains("trace"), on the values of Envs.
contains_debug_or_trace(log) == log \in {"debug", "rust_mcp_server=trace"}

\* env::var(name).is_ok_and(|log| ..)
is_ok_and_debug_or_trace(var) == var # None /\ contains_debug_or_trace(var.value)

\* Config::is_development_mode
is_development_mode(config, env) ==
    \/ is_ok_and_debug_or_trace(env.RUST_LOG)
    \/ env.CARGO_PKG_VERSION # None
    \/ config.enable_debug_routes
    \/ config.enable_cors /\ config.dashboard_host = "0.0.0.0"

Ok == [tag |-> "Ok"]
ConfigErr(msg) == [tag |-> "Err", variant |-> "Config", message |-> msg]

debug_routes_message == "Debug routes cannot be enabled in production mode"

\* Config::validate_production_hardening: outside development mode the only
\* check that returns is the one on enable_debug_routes; the others print a
\* warning.
validate_production_hardening(config, env) ==
    IF ~is_development_mode(config, env) /\ config.enable_debug_routes
    THEN ConfigErr(debug_routes_message)
    ELSE Ok

\* Config::validate: the checks in the order of the code, the first that
\* fails returns.
validate(config, env) ==
    IF config.dashboard_port = 0
    THEN ConfigErr("Dashboard port must be between 1 and 65535")
    ELSE IF validate_production_hardening(config, env) # Ok
    THEN validate_production_hardening(config, env)
    ELSE IF config.max_tool_execution_time_ms = 0
    THEN ConfigErr("Tool execution timeout must be greater than 0")
    ELSE IF config.http_timeout_seconds = 0
    THEN ConfigErr("HTTP timeout must be greater than 0")
    ELSE IF config.max_file_size_bytes > 100 * 1024 * 1024
    THEN ConfigErr("Max file size cannot exceed 100MB")
    ELSE IF config.requests_per_minute = 0
    THEN ConfigErr("Rate limit requests per minute must be greater than 0")
    ELSE IF config.burst_size = 0
    THEN ConfigErr("Rate limit burst size must be greater than 0")
    ELSE Ok

\* main(): config.validate() on the configuration it loaded.
validate_call ==
    /\ validation = None
    /\ \E config \in Configs, env \in Envs :
         validation' = [config |-> config, env |-> env, result |-> validate(config, env)]
    /\ UNCHANGED <<appVars, busVars, recVars, statusVars, rateVars, connVars,
                   admitVars, apiVars, sideVars, toolCalled, xcall, requests,
                   responses, uncleaned, instVars>>

(***************************************************************************)
(* AppState instances (src/shared/state.rs).  Every field of an AppState   *)
(* is a handle (an Arc, the Sender of a channel) to a cell in heap; a clone *)
(* of the AppState copies the handles.                                     *)
(***************************************************************************)
Fields == {"mcp_status", "active_sessions", "event_tx", "metrics", "tool_calls"}

\* An allocator that hands out an existing cell with an equal value.
Arc_new_interned(h, value) ==
    IF \E i \in DOMAIN h : h[i] = value
    THEN [heap |-> h, ptr |-> CHOOSE i \in DOMAIN h : h[i] = value]
    ELSE [heap |-> Append(h, value), ptr |-> Len(h) + 1]

\* Arc::new(value), and the allocation behind broadcast::channel: a new cell.
Arc_new(h, value) == [heap |-> Append(h, value), ptr |-> Len(h) + 1]

\* broadcast::channel(1000): the channel with the one Receiver it returns.
channel == [tail |-> 0, receivers |-> 1]

\* let (event_tx, _) = ..: the Receiver is dropped at once.
drop_rx(ch) == [ch EXCEPT !.receivers = @ - 1]

\* AppState::new: five new cells, with McpStatus::default(), DashMap::new(),
\* the channel without its first Receiver, DashMap::new() and Vec::new().
AppState_new ==
    /\ Len(instances) < MaxInstances
    /\ LET a1 == Arc_new(heap, drop_rx(channel))
           a2 == Arc_new(a1.heap, McpStatus_default)
           a3 == Arc_new(a2.heap, <<>>)
           a4 == Arc_new(a3.heap, <<>>)
           a5 == Arc_new(a4.heap, <<>>)
       IN /\ heap' = a5.heap
          /\ instances' = Append(instances,
                 [event_tx |-> a1.ptr, mcp_status |-> a2.ptr, active_sessions |-> a3.ptr,
                  metrics |-> a4.ptr, tool_calls |-> a5.ptr,
                  root |-> Len(instances) + 1])
    /\ UNCHANGED <<appVars, busVars, recVars, statusVars, rateVars, connVars,
                   admitVars, apiVars, sideVars, toolCalled, xcall, requests,
                   responses, uncleaned, cfgVars>>

\* #[derive(Clone)] for AppState: the handles are copied, the cells shared.
\* root names the instance AppState::new made that the clone descends from.
AppState_clone(i) ==
    /\ Len(instances) < MaxInstances
    /\ instances' = Append(instances, instances[i])
    /\ UNCHANGED <<appVars, busVars, recVars, statusVars, rateVars, connVars,
                   admitVars, apiVars, sideVars, toolCalled, xcall, requests,
                   responses, uncleaned, cfgVars, heap>>

\* A method of instance i that writes the cell of one field.
write_field(i, field, value) ==
    /\ heap[instances[i][field]] # value
    /\ heap' = [heap EXCEPT ![instances[i][field]] = value]
    /\ UNCHANGED <<appVars, busVars, recVars, statusVars, rateVars, connVars,
                   admitVars, apiVars, sideVars, toolCalled, xcall, requests,
                   responses, uncleaned, cfgVars, instances>>

\* The cell of a field of instance i.
field(i, f) == heap[instances[i][f]]

\* add_tool_call on instance i
instance_add_tool_call(i) ==
    /\ field(i, "tool_calls") = <<>>
    /\ write_field(i, "tool_calls", push(field(i, "tool_calls"), ToolCall_new("echo", 1)))

\* update_metric on instance i
instance_update_metric(i) ==
    write_field(i, "metrics", insert(field(i, "metrics"), "requests", Counter(1)))

\* subscribe_to_events on instance i
instance_subscribe(i) ==
    /\ field(i, "event_tx").receivers = 0
    /\ write_field(i, "event_tx", [field(i, "event_tx") EXCEPT !.receivers = @ + 1])

\* active_sessions.insert on instance i
instance_session_insert(i) ==
    write_field(i, "active_sessions",
                insert(field(i, "active_sessions"), 1, SessionInfo_new(1, 0)))

\* mcp_status.store on instance i, of a status that is not connected
instance_store_status(i) ==
    write_field(i, "mcp_status",
                store(field(i, "mcp_status"), [McpStatus_default EXCEPT !.connected = FALSE]))

(***************************************************************************)
(* Initial states                                                          *)
(***************************************************************************)
\* AppState::new
InitApp ==
    /\ tool_calls = <<>>
    /\ metrics = <<>>
    /\ mcp_status = McpStatus_default
    /\ tail = 0
    /\ rx = [r \in Receivers |-> [live |-> FALSE, next |-> 0]]

InitBus ==
    /\ rxSub = [r \in Receivers |-> -1]
    /\ observed = [r \in Receivers |-> <<>>]
    /\ behind = [r \in Receivers |-> FALSE]

InitRec ==
    /\ rpc = [t \in RecTasks |-> "idle"]
    /\ rcall = [t \in RecTasks |-> None]
    /\ rcounter = [t \in RecTasks |-> 0]
    /\ nextId = 0
    /\ appended = {}
    /\ completed = [n \in ToolNames |-> 0]

InitStatus ==
    /\ spc = [t \in StatusTasks |-> "idle"]
    /\ skind = [t \in StatusTasks |-> "none"]
    /\ sloaded = [t \in StatusTasks |-> None]
    /\ utcNow = 0
    /\ storedSnaps = {McpStatus_default}

\* WebSocketRateLimiter::new (the RATE_LIMITER static)
InitRate ==
    /\ connections = <<>>
    /\ instantNow = 0
    /\ lpc = [t \in RateTasks |-> "idle"]
    /\ lip = [t \in RateTasks |-> "none"]
    /\ lnow = [t \in RateTasks |-> 0]
    /\ rateCalls = 0
    /\ callLog = [ip \in IpAddrs |-> <<>>]

InitConn ==
    /\ ckind = [c \in Receivers |-> "none"]
    /\ cpc = [c \in Receivers |-> "none"]
    /\ peer = [c \in Receivers |-> "open"]
    /\ inbound = [c \in Receivers |-> "open"]
    /\ recvOff = [c \in Receivers |-> FALSE]
    /\ trigger = [c \in Receivers |-> "none"]

\* No request is being served.
InitAdmit ==
    /\ lret = [t \in RateTasks |-> None]
    /\ apc = [t \in RateTasks |-> "idle"]
    /\ areq = [t \in RateTasks |-> None]
    /\ aadm = [t \in RateTasks |-> "none"]
    /\ aresp = [t \in RateTasks |-> "none"]

\* No call of the API has been made.
InitApi ==
    /\ sendRet = None
    /\ recRet = [t \in RecTasks |-> "none"]
    /\ recent = None
    /\ executions = 0
    /\ lastExec = None

\* AppState::new: active_sessions is DashMap::new(); no caller has started.
InitSess ==
    /\ active_sessions = <<>>
    /\ guard = [t \in Callers |-> 0]
    /\ upc = [t \in Callers |-> "idle"]
    /\ uloaded = [t \in Callers |-> 0]
    /\ updates = [id \in SessionIds |-> [t \in Callers |-> 0]]
    /\ nextSession = 0

\* No connection has written anything.
InitOut ==
    /\ wsOut = <<>>
    /\ sseOut = <<>>

\* HotReloadWatcher::new and oneshot::channel(): start has not run.
InitWatch ==
    /\ wpc = "not_started"
    /\ wdirs = {}
    /\ watched = {}
    /\ debouncer = "none"
    /\ shutdown_rx = "empty"
    /\ wticks = 0

\* No task runs, no lock is held.
InitLocks ==
    /\ khandler = [t \in LockTasks |-> "none"]
    /\ kstep = [t \in LockTasks |-> 0]
    /\ kwait = [t \in LockTasks |-> FALSE]
    /\ kheld = [t \in LockTasks |-> {}]
    /\ kqueue = [l \in Locks |-> <<>>]

\* AppState::new: the channel is created empty.
InitEv ==
    /\ toolCalled = <<>>
    /\ xcall = [t \in RecTasks |-> None]
    /\ requests = 0
    /\ responses = <<>>
    /\ uncleaned = <<>>
    /\ validation = None
    /\ heap = <<>>
    /\ instances = <<>>

Init ==
    /\ InitApp /\ InitBus /\ InitRec /\ InitStatus /\ InitRate /\ InitConn
    /\ InitAdmit /\ InitApi /\ InitSess /\ InitOut /\ InitWatch /\ InitLocks
    /\ InitEv

(***************************************************************************)
(* SpecRecord: concurrent callers of record_tool_call and add_tool_call    *)
(***************************************************************************)
NextRecord ==
    \E t \in RecTasks :
        \/ /\ nextId < MaxCalls
           /\ \E name \in ToolNames, outcome \in Outcomes :
                record_tool_call_push(t, name, outcome)
        \/ /\ nextId < MaxCalls
           /\ \E name \in ToolNames, outcome \in Outcomes :
                add_tool_call(t, name, outcome)
        \/ record_tool_call_send(t)
        \/ record_tool_call_get(t)
        \/ record_tool_call_insert(t)

SpecRecord == Init /\ [][NextRecord]_vars

(***************************************************************************)
(* SpecStatus: concurrent loads and stores of the status cell              *)
(***************************************************************************)
NextStatus ==
    \/ \E t \in StatusTasks :
        \/ get_status(t)
        \/ main_store(t)
        \/ handler_load(t)
        \/ handler_store(t)
    \/ utc_tick

SpecStatus == Init /\ [][NextStatus]_vars

(***************************************************************************)
(* SpecHeartbeat: main() stores the status once, before it starts the      *)
(* servers; the get_status and get_heartbeat handlers then run             *)
(* concurrently, with readers of the status                                *)
(***************************************************************************)
\* main() has stored its status: the servers run.
started == mcp_status.capabilities = McpStatus_main(0).capabilities

NextHeartbeat ==
    \/ \E t \in StatusTasks :
        \/ ~started /\ main_store(t)
        \/ started /\ handler_load(t)
        \/ handler_store(t)
        \/ started /\ get_status(t)
    \/ utc_tick

SpecHeartbeat == Init /\ [][NextHeartbeat]_vars

(***************************************************************************)
(* SpecRate: concurrent check_rate_limit calls against the clock           *)
(***************************************************************************)
NextRate ==
    \/ \E t \in RateTasks :
        \/ rateCalls < MaxRateCalls /\ \E ip \in IpAddrs : check_rate_limit_now(t, ip)
        \/ check_rate_limit_locked(t)
    \/ instant_tick

SpecRate == Init /\ [][NextRate]_vars

\* The runtime keeps running the handlers, and time keeps passing.
SpecRateFair == SpecRate /\ WF_vars(NextRate)

(***************************************************************************)
(* SpecRateSeq: one handler calls check_rate_limit for one address, each   *)
(* call returning before the next starts, against the clock                *)
(***************************************************************************)
SeqTask == "h1"
SeqIp == "10.0.0.1"

NextRateSeq ==
    \/ rateCalls < MaxSeqCalls /\ check_rate_limit_now(SeqTask, SeqIp)
    \/ check_rate_limit_locked(SeqTask)
    \/ instant_tick

SpecRateSeq == Init /\ [][NextRateSeq]_vars

(***************************************************************************)
(* SpecCleanup: one handler calls check_rate_limit for either address,     *)
(* each call returning before the next starts, and cleanup runs between    *)
(* calls                                                                   *)
(***************************************************************************)
NextCleanup ==
    \/ /\ rateCalls < MaxSeqCalls
       /\ \E ip \in IpAddrs : check_rate_limit_now(SeqTask, ip)
    \/ check_rate_limit_locked(SeqTask)
    \/ cleanup_call
    \/ instant_tick

SpecCleanup == Init /\ [][NextCleanup]_vars

(***************************************************************************)
(* SpecRatePair: two handlers call check_rate_limit for one address        *)
(* concurrently, against the clock                                         *)
(***************************************************************************)
NextRatePair ==
    \/ \E t \in RateTasks :
        \/ rateCalls < MaxSeqCalls /\ check_rate_limit_now(t, SeqIp)
        \/ check_rate_limit_locked(t)
    \/ instant_tick

SpecRatePair == Init /\ [][NextRatePair]_vars

(***************************************************************************)
(* SpecBus: publishers and receivers of the event channel                  *)
(***************************************************************************)
NextBus ==
    \/ publish
    \/ \E r \in Receivers :
        \/ subscribe(r)
        \/ recv_ok(r)
        \/ recv_lagged(r)
        \/ drop_receiver(r)

SpecBus == Init /\ [][NextBus]_vars

(***************************************************************************)
(* SpecConn: a stream connection, the publishers and the client            *)
(***************************************************************************)
NextConn ==
    \/ publish
    \/ \E c \in Conns :
        \/ connect(c)
        \/ peer_close(c)
        \/ ws_inbound_frame(c)
        \/ ws_inbound_close(c)
        \/ ws_inbound_end(c)
        \/ ws_recv_ok(c)
        \/ ws_recv_err(c)
        \/ sse_recv_ok(c)
        \/ sse_recv_err(c)
        \/ sse_body_dropped(c)

SpecConn == Init /\ [][NextConn]_vars

(***************************************************************************)
(* SpecAdmit: WebSocket requests of one address, served one after another, *)
(* and SSE requests                                                        *)
(***************************************************************************)
NextAdmit ==
    \/ /\ apc[SeqTask] = "idle"
       /\ lret[SeqTask] = None
       /\ rateCalls < MaxSeqCalls
       /\ check_rate_limit_now(SeqTask, SeqIp)
    \/ check_rate_limit_locked(SeqTask)
    \/ ws_rate_limited(SeqTask)
    \/ ws_validate_origin(SeqTask)
    \/ ws_handle(SeqTask)
    \/ \E t \in RateTasks :
        \/ sse_handler(t)
        \/ stream_end(t)
    \/ instant_tick

SpecAdmit == Init /\ [][NextAdmit]_vars

(***************************************************************************)
(* SpecDeliver: callers of record_tool_call, event receivers and a reader  *)
(* of the history                                                          *)
(***************************************************************************)
\* Two callers of record_tool_call.
DeliverTasks == {1, 2}

NextDeliver ==
    \/ \E t \in DeliverTasks :
        \/ /\ nextId < MaxCalls
           /\ record_tool_call_push(t, "echo", ToolCallResult_Success("value"))
        \/ record_tool_call_send(t)
        \/ record_tool_call_get(t)
        \/ record_tool_call_insert(t)
    \/ subscribe(receiver_of(SeqTask))
    \/ recv_ok(receiver_of(SeqTask))
    \/ get_tool_calls_call(MaxCalls)

SpecDeliver == Init /\ [][NextDeliver]_vars

(***************************************************************************)
(* SpecRecordSeq: one caller of record_tool_call, each call returning      *)
(* before the next starts                                                  *)
(***************************************************************************)
SeqRecTask == 1
SeqOutcomes ==
    {ToolCallResult_Success("value"), ToolCallResult_Error("boom"),
     ToolCallResult_Error("timeout")}

NextRecordSeq ==
    \/ /\ nextId < MaxCalls
       /\ \E name \in ToolNames, outcome \in SeqOutcomes :
            record_tool_call_push(SeqRecTask, name, outcome)
    \/ record_tool_call_send(SeqRecTask)
    \/ record_tool_call_get(SeqRecTask)
    \/ record_tool_call_insert(SeqRecTask)

SpecRecordSeq == Init /\ [][NextRecordSeq]_vars

(***************************************************************************)
(* SpecHistory: sustained appends to the tool call history                 *)
(***************************************************************************)
NextHistory ==
    /\ nextId < MaxAppends
    /\ add_tool_call(SeqRecTask, "echo", ToolCallResult_Success("value"))

SpecHistory == Init /\ [][NextHistory]_vars

(***************************************************************************)
(* SpecPublish: callers of send_event and send_event_details, receivers    *)
(* that come and go                                                        *)
(***************************************************************************)
NextPublish ==
    \/ send_event
    \/ send_event_details
    \/ \E r \in Receivers :
        \/ subscribe(r)
        \/ drop_receiver(r)

SpecPublish == Init /\ [][NextPublish]_vars

(***************************************************************************)
(* SpecTools: executions of the get_request and read_file tools, readers   *)
(* of the history, a receiver of the events                                *)
(***************************************************************************)
NextTools ==
    \/ /\ nextId < MaxCalls /\ executions < MaxCalls + 1
       /\ \E outcome \in GetRequestOutcomes : get_request(outcome)
    \/ /\ nextId < MaxCalls /\ executions < MaxCalls + 1
       /\ \E outcome \in ReadFileOutcomes : read_file(outcome)
    \/ \E limit \in 0..(MaxCalls + 1) : get_tool_calls_call(limit)
    \/ subscribe("rx1")
    \/ drop_receiver("rx1")

SpecTools == Init /\ [][NextTools]_vars

(***************************************************************************)
(* SpecMetrics: callers of update_metric and one caller of                 *)
(* record_tool_call                                                        *)
(***************************************************************************)
MetricKeys == {"latency", "tool_calls_echo"}
MetricValues == {Counter(1), Gauge(1), Histogram(<<1>>)}

NextMetrics ==
    \/ \E key \in MetricKeys, value \in MetricValues : update_metric(key, value)
    \/ /\ nextId < MaxCalls
       /\ record_tool_call_push(SeqRecTask, "echo", ToolCallResult_Success("value"))
    \/ record_tool_call_send(SeqRecTask)
    \/ record_tool_call_get(SeqRecTask)
    \/ record_tool_call_insert(SeqRecTask)

SpecMetrics == Init /\ [][NextMetrics]_vars

(***************************************************************************)
(* SpecSession: sessions inserted and removed, two callers of              *)
(* update_activity                                                         *)
(***************************************************************************)
\* The sum of the values of f on S.
RECURSIVE SumOver(_, _)
SumOver(f, S) == IF S = {} THEN 0
                 ELSE LET t == CHOOSE x \in S : TRUE IN f[t] + SumOver(f, S \ {t})

\* The update_activity calls of a caller that have returned.
Returned(t) == SumOver([id \in SessionIds |-> updates[id][t]], SessionIds)

NextSession ==
    \/ nextSession < Cardinality(SessionIds) /\ session_insert
    \/ \E t \in Callers, id \in SessionIds : get_mut(t, id)
    \/ \E t \in Callers : Returned(t) < MaxUpdates /\ update_activity_load(t)
    \/ \E t \in Callers : update_activity_store(t)
    \/ \E t \in Callers : drop_guard(t)
    \/ \E id \in SessionIds : session_remove(id)
    \/ utc_tick

SpecSession == Init /\ [][NextSession]_vars

(***************************************************************************)
(* SpecFrames: a WebSocket and an SSE connection write the events they     *)
(* receive; SpecSse: the SSE connection alone                              *)
(***************************************************************************)
NextSse ==
    \/ Len(sseOut) < MaxFrames /\ \E event \in SystemEvents : sse_event(event)
    \/ utc_tick

SpecSse == Init /\ [][NextSse]_vars

NextFrames ==
    \/ Len(wsOut) < MaxFrames /\ \E event \in SystemEvents : ws_event(event)
    \/ Len(sseOut) < MaxFrames /\ \E event \in SystemEvents : sse_event(event)
    \/ utc_tick

SpecFrames == Init /\ [][NextFrames]_vars

(***************************************************************************)
(* SpecWatch: the hot-reload watcher and the holder of its shutdown sender; *)
(* SpecWatchFair: the runtime polls the watcher's task                     *)
(***************************************************************************)
NextWatch ==
    \/ \E created \in {"Ok", "Err"}, dirs \in SUBSET WatchDirs :
             start_watcher(created, dirs)
    \/ select_shutdown
    \/ wticks < MaxTicks /\ select_sleep
    \/ shutdown_send
    \/ shutdown_drop

SpecWatch == Init /\ [][NextWatch]_vars

SpecWatchFair ==
    /\ SpecWatch
    /\ WF_vars(\E created \in {"Ok", "Err"}, dirs \in SUBSET WatchDirs :
                   start_watcher(created, dirs))
    /\ WF_vars(select_shutdown)

(***************************************************************************)
(* SpecLocks: tasks run the handlers that take locks                       *)
(***************************************************************************)
NextLocks ==
    \E t \in LockTasks :
        \/ \E f \in Functions : task_start(t, f)
        \/ poll_lock(t)
        \/ grant_lock(t)
        \/ take_guard(t)
        \/ guard_dropped(t)
        \/ io_suspend(t)
        \/ io_resume(t)

SpecLocks == Init /\ [][NextLocks]_vars

(***************************************************************************)
(* SpecExecute: concurrent requests to execute_tool                        *)
(***************************************************************************)
NextExecute ==
    \E t \in RecTasks :
        \/ /\ nextId < MaxCalls
           /\ \E name \in ToolNames, io \in {"Ok", "Err"} : execute_tool(t, name, io)
        \/ record_tool_call_send(t)
        \/ record_tool_call_get(t)
        \/ record_tool_call_insert(t)
        \/ execute_tool_return(t)

SpecExecute == Init /\ [][NextExecute]_vars

(***************************************************************************)
(* SpecConfig: Config::validate on the configurations and environments     *)
(***************************************************************************)
NextConfig == validate_call

SpecConfig == Init /\ [][NextConfig]_vars

(***************************************************************************)
(* SpecInstances: AppState values are constructed, cloned and used         *)
(***************************************************************************)
NextInstances ==
    \/ AppState_new
    \/ \E i \in DOMAIN instances :
        \/ AppState_clone(i)
        \/ instance_add_tool_call(i)
        \/ instance_update_metric(i)
        \/ instance_subscribe(i)
        \/ instance_session_insert(i)
        \/ instance_store_status(i)

SpecInstances == Init /\ [][NextInstances]_vars

(***************************************************************************)
(* Claims                                                                  *)
(***************************************************************************)
AllRecordersIdle == \A t \in RecTasks : rpc[t] = "idle"

\* C1: once the concurrent record_tool_call calls for a tool name have all
\* returned, the counter tool_calls_<name> equals its value before the calls
\* (0 in a fresh state) plus the number of calls: no increment is lost.
C1_NoLostIncrement ==
    AllRecordersIdle =>
        \A n \in ToolNames : get_counter(metrics, metric_key(n)) = completed[n]

\* C2: after concurrent record_tool_call / add_tool_call calls with distinct
\* ids, the history holds exactly one record per call and the ids of its
\* records are pairwise distinct: no append is lost or duplicated.
C2_AppendsKept ==
    /\ Len(tool_calls) = Cardinality(appended)
    /\ {tool_calls[i].id : i \in DOMAIN tool_calls} = appended
    /\ \A i, j \in DOMAIN tool_calls : tool_calls[i].id = tool_calls[j].id => i = j

\* C2 witness: MaxCalls calls have all returned, two of them overlapped (their
\* counter updates collided), and the history holds every one of them.
C2_Witness ==
    /\ AllRecordersIdle
    /\ nextId = MaxCalls
    /\ Len(tool_calls) = MaxCalls
    /\ \E n \in ToolNames : completed[n] >= 2 /\ get_counter(metrics, metric_key(n)) < completed[n]

\* C3: a load of the status that runs concurrently with stores returns one of
\* the snapshots that was stored (or the initial one), whole: never a value
\* whose fields come from two different stored snapshots.
C3_LoadIsStoredSnapshot ==
    \A t \in StatusTasks : sloaded[t] # None => sloaded[t] \in storedSnaps

\* C3 witness: a handler holds a snapshot a store of another caller made, and
\* the cell has been stored to again since that load.
C3_Witness ==
    \E t \in StatusTasks :
        /\ spc[t] = "loaded"
        /\ sloaded[t] \in storedSnaps \ {McpStatus_default}
        /\ mcp_status # sloaded[t]
        /\ \E u \in StatusTasks \ {t} : spc[u] = "loaded"

\* The calls for address ip made before call j lie at least a window before it.
WindowElapsedAt(ip, j) ==
    \A k \in 1..(j - 1) : callLog[ip][j].now - callLog[ip][k].now >= time_window

\* C4: with a limit of K = max_connections_per_ip attempts per window, of K+1
\* calls for one address within one window (the first of them made with no
\* earlier attempt in its window) the first K return allowed and the (K+1)th
\* returns rate-limited; a call made once the window has elapsed since every
\* earlier attempt returns allowed again.
C4_WindowLimit ==
    \A ip \in IpAddrs :
        LET log == callLog[ip] K == max_connections_per_ip IN
        /\ \A i \in DOMAIN log :
             (/\ WindowElapsedAt(ip, i)
              /\ i + K \in DOMAIN log
              /\ log[i + K].now - log[i].now < time_window)
             => /\ \A m \in i..(i + K - 1) : log[m].allowed
                /\ ~log[i + K].allowed
        /\ \A j \in DOMAIN log : WindowElapsedAt(ip, j) => log[j].allowed

\* C4 witness: K calls were allowed, the (K+1)th in the same window was
\* rejected, and after the window elapsed a call was allowed again.
C4_Witness ==
    \E ip \in IpAddrs :
        LET log == callLog[ip] K == max_connections_per_ip IN
        /\ Len(log) >= K + 2
        /\ \A m \in 1..K : log[m].allowed
        /\ ~log[K + 1].allowed
        /\ log[K + 1].now - log[1].now < time_window
        /\ log[Len(log)].allowed
        /\ log[Len(log)].now - log[K + 1].now >= time_window

\* Receiver r was told it lagged.
HasLagged(r) == \E i \in DOMAIN observed[r] : observed[r][i].kind = "Lagged"

\* Receiver r was handed exactly the events sent after its subscribe, in order.
Contiguous(r) ==
    \A i \in DOMAIN observed[r] :
        observed[r][i].kind = "Ok" /\ observed[r][i].pos = rxSub[r] + i

\* C5 as stated: a receiver that subscribed after N events observes none of
\* them and then every event published after the subscribe, each exactly once
\* and in publish order.
C5_EveryLaterEvent == \A r \in Receivers : Contiguous(r)

\* C5 as amended: a receiver that subscribed after N events observes none of
\* them, and what it observes is in publish order, each event at most once;
\* as long as it has not fallen more than ChannelCapacity events behind it
\* observes every event published after the subscribe, none skipped.
C5_LaterEventsUnlessLagged ==
    \A r \in Receivers :
        /\ \A i \in DOMAIN observed[r] :
             observed[r][i].kind = "Ok" => observed[r][i].pos > rxSub[r]
        /\ \A i, j \in DOMAIN observed[r] :
             (i < j /\ observed[r][i].kind = "Ok" /\ observed[r][j].kind = "Ok")
             => observed[r][i].pos < observed[r][j].pos
        /\ ~behind[r] => Contiguous(r)

\* C5 witness: a receiver subscribed after events were published and has been
\* handed two later events.
C5_Witness ==
    \E r \in Receivers :
        /\ rxSub[r] >= 1
        /\ ~behind[r]
        /\ Len(observed[r]) >= 2

\* C6: publish never waits for a receiver, a receiver is told it lagged only
\* if it fell behind the channel bound itself, and every receiver that did not
\* fall behind is handed every event in publish order, whatever the others do.
C6_SlowReceiverIsolated ==
    /\ tail < MaxPublish => ENABLED publish
    /\ \A r \in Receivers : HasLagged(r) => behind[r]
    /\ \A r, q \in Receivers : (q # r /\ behind[q] /\ ~behind[r]) => Contiguous(r)

\* C6 witness: one receiver was told it lagged, and another that did not fall
\* behind was handed events in order after that.
C6_Witness ==
    \E r, q \in Receivers :
        /\ q # r
        /\ HasLagged(q)
        /\ ~behind[r]
        /\ Len(observed[r]) >= 2
        /\ \E i \in DOMAIN observed[q] :
             /\ observed[q][i].kind = "Lagged"
             /\ observed[r][Len(observed[r])].at > observed[q][i].at

\* The number of events before receiver r's position ahead of its i-th recv,
\* in a channel that holds cap values.
PositionBefore(r, i, cap) ==
    IF i = 1 THEN rxSub[r]
    ELSE IF observed[r][i - 1].kind = "Ok" THEN observed[r][i - 1].pos
    ELSE observed[r][i - 1].at - cap

\* The channel holds at most the cap most recently published events: every
\* event handed to a receiver is among the cap newest at that moment, and a
\* receiver that is more than cap behind loses exactly its oldest undelivered
\* events and continues with the oldest of the cap newest.
NewestKept(cap) ==
    /\ tail - oldest_retained(tail) <= cap
    /\ \A r \in Receivers : \A i \in DOMAIN observed[r] :
         LET e == observed[r][i] IN
         IF e.kind = "Ok"
         THEN /\ e.at - e.pos < cap
              /\ e.pos = PositionBefore(r, i, cap) + 1
         ELSE /\ e.missed >= 1
              /\ e.at - PositionBefore(r, i, cap) > cap
              /\ PositionBefore(r, i, cap) + e.missed = e.at - cap

C8_LoopEndsOnTrigger ==
    \A c \in Conns : trigger[c] # "none" => cpc[c] = "done"

\* C9: once the underlying connection of a stream is closed, its task goes on
\* to terminate and release its subscription even if no event is published
\* again: the task is never parked with only a new event to wake it.
C9_ClosedConnectionEnds ==
    \A c \in Conns : (peer[c] = "closed" /\ cpc[c] = "loop") => task_ready(c)

\* C10: after its receiver lagged a connection task neither panics nor stays
\* connected without delivering the events that wait for it.
C10_NoCrashNoHang ==
    \A c \in Conns :
        HasLagged(c) =>
            /\ cpc[c] # "panicked"
            /\ ~(cpc[c] = "loop" /\ recvOff[c] /\ rx[c].next < tail)

\* C11: every stream connection, WebSocket or SSE, holds an event
\* subscription only after the admission check of its request returned
\* allowed: a handler whose receiver is live has the admission outcome Allowed.
C11_SubscribedOnlyIfAdmitted ==
    \A t \in RateTasks : rx[receiver_of(t)].live => aadm[t] = "Allowed"

\* C12: admission has exactly three outcomes, allowed, rate limited and origin
\* rejected; a rate limited request is answered 429 Too Many Requests and an
\* origin rejected one 403 Forbidden, two distinct responses, and neither is
\* upgraded or subscribed; only an allowed request is upgraded.
C12_ThreeOutcomes ==
    \A t \in RateTasks :
        /\ aadm[t] \in {"none", "Allowed", "RateLimited", "OriginRejected"}
        /\ aadm[t] = "RateLimited" =>
             /\ aresp[t] = "TooManyRequests"
             /\ apc[t] = "idle"
             /\ ~rx[receiver_of(t)].live
        /\ aadm[t] = "OriginRejected" =>
             /\ aresp[t] = "Forbidden"
             /\ apc[t] = "idle"
             /\ ~rx[receiver_of(t)].live
        /\ aresp[t] = "SwitchingProtocols" => aadm[t] = "Allowed"

\* C12 witness: the eleventh request of a window was rate limited and answered
\* 429, after an earlier request had passed the rate limit.
C12_Witness ==
    /\ aadm[SeqTask] = "RateLimited"
    /\ aresp[SeqTask] = "TooManyRequests"
    /\ Len(callLog[SeqIp]) > max_connections_per_ip

\* C13: with enable_cors off a request passes the origin check exactly when it
\* carries an Origin header equal, character for character, to an entry of
\* websocket_allowed_origins (no header: rejected); with enable_cors on every
\* request passes, with any Origin header or none.
C13_OriginCheck ==
    \A t \in RateTasks :
        aadm[t] \in {"Allowed", "OriginRejected"} =>
            IF areq[t].enable_cors
            THEN aadm[t] = "Allowed"
            ELSE aadm[t] = "Allowed" <=>
                   \E v \in websocket_allowed_origins : areq[t].origin = Some(v)

\* C13 witness: with enable_cors off, a request whose Origin differs from an
\* allowed one only in case was rejected.
C13_Witness ==
    \E t \in RateTasks :
        /\ aadm[t] = "OriginRejected"
        /\ ~areq[t].enable_cors
        /\ areq[t].origin = Some("HTTP://LOCALHOST:8080")

\* C16: every stored record that was completed with a result has success =
\* TRUE exactly when the result is Success, and for Error(m) has success =
\* FALSE and error = m; record_tool_call returns Ok, and once a call has
\* returned the counter of its tool name has grown by exactly 1 per call.
C16_RecordedOutcome ==
    /\ \A i \in DOMAIN tool_calls :
         LET call == tool_calls[i] IN
         call.result # None =>
            /\ call.success <=> call.result.value.tag = "Success"
            /\ call.result.value.tag = "Error" =>
                 /\ ~call.success
                 /\ call.error = Some(call.result.value.value)
    /\ \A t \in RecTasks : recRet[t] \in {"none", "Ok"}
    /\ rpc[SeqRecTask] = "idle" =>
         \A n \in ToolNames : get_counter(metrics, metric_key(n)) = completed[n]

\* C16 witness: a record completed with Error("boom") was recorded, the call
\* returned Ok and the counter of its tool name is 1.
C16_Witness ==
    /\ rpc[SeqRecTask] = "idle"
    /\ recRet[SeqRecTask] = "Ok"
    /\ \E i \in DOMAIN tool_calls :
         /\ tool_calls[i].result = Some(ToolCallResult_Error("boom"))
         /\ tool_calls[i].error = Some("boom")
         /\ get_counter(metrics, metric_key(tool_calls[i].name)) = 1

\* C17: the tool call history is bounded by its retention cap of 1000
\* entries: after any sequence of appends its length is at most the cap.
C17_HistoryBounded == Len(tool_calls) <= max_tool_calls_history

\* C18: the tool call history is append-only: every step leaves the records
\* already appended as they are, in their positions, and a step that changes
\* the history adds exactly one record after them, so the order of the
\* history is the order in which the appends committed.
C18_AppendOnly ==
    [][\/ tool_calls' = tool_calls
       \/ /\ Len(tool_calls') = Len(tool_calls) + 1
          /\ SubSeq(tool_calls', 1, Len(tool_calls)) = tool_calls]_vars

\* C18 witness: two records were appended, the second while the call that
\* appended the first was still running, and the first is still in place.
C18_Witness ==
    /\ Len(tool_calls) >= 2
    /\ \E t \in RecTasks : rpc[t] # "idle" /\ rcall[t] = tool_calls[1]

\* C14: publishing an event when there are zero subscribers is a no-op and
\* never an error: no call of send_event or send_event_details reports an
\* error.
C14_PublishNeverErr == sendRet # None => sendRet.ret # "Err"

\* The metric a tool counts its executions with.
TotalKey(tool) == IF tool = "http_get" THEN "http_requests_total" ELSE "file_reads_total"

\* C15: every tool execution, whether it succeeds or fails, is fully recorded:
\* the step in which it returns adds exactly one record to the history, the
\* record of that tool, carrying an error message when the execution failed;
\* it updates the tool's metric, and it publishes one event (with a live
\* receiver the channel grows by one value).
C15_ExecutionRecorded ==
    [][executions' = executions + 1 =>
         /\ Len(tool_calls') = Len(tool_calls) + 1
         /\ LET call == tool_calls'[Len(tool_calls')] IN
              /\ call.name = lastExec'.tool
              /\ lastExec'.failed => (~call.success /\ call.error # None)
         /\ TotalKey(lastExec'.tool) \in DOMAIN metrics'
         /\ receiver_count > 0 => tail' = tail + 1]_vars

\* C19: get_tool_calls(n) returns min(n, history length) records, the n most
\* recently appended ones, newest first: the i-th returned record is the i-th
\* from the end of the history as it was at the call.
C19_RecentNewestFirst ==
    recent # None =>
        /\ recent.at <= Len(tool_calls)
        /\ Len(recent.calls) = (IF recent.limit < recent.at THEN recent.limit
                                ELSE recent.at)
        /\ \A i \in DOMAIN recent.calls : recent.calls[i] = tool_calls[recent.at - i + 1]

\* C19 witness: get_tool_calls(2) on a history of three records returned the
\* third and the second, in that order.
C19_Witness ==
    /\ recent # None
    /\ recent.limit = 2
    /\ recent.at = 3
    /\ Len(recent.calls) = 2
    /\ recent.calls[1].id = 3
    /\ recent.calls[2].id = 2

\* C20: a metric name keeps the type of its first write: no step leaves a name
\* that holds a value with a value of a different type, or without a value.
C20_MetricTypeKept ==
    [][\A k \in DOMAIN metrics :
          k \in DOMAIN metrics' /\ metrics'[k].tag = metrics[k].tag]_vars

\* The number of records of a tool in the history.
RecordsOf(tool) == Cardinality({i \in DOMAIN tool_calls : tool_calls[i].name = tool})

\* C21: a counter is replaced by its previous value plus the increment at each
\* counted occurrence: the *_total counter a tool writes once per execution
\* equals the number of executions of that tool that wrote it (each of them
\* also appended one record to the history).
C21_TotalCountsExecutions ==
    \A tool \in {"http_get", "read_file"} :
        get_counter(metrics, TotalKey(tool)) = RecordsOf(tool)

\* The observations stored under a histogram name.
observations(m, k) == IF k \in DOMAIN m /\ m[k].tag = "Histogram" THEN m[k].value ELSE <<>>

\* C22: a histogram is an append-only list of observations: after k executions
\* of read_file recorded their duration, the list under file_read_duration_ms
\* holds k observations, and its current value is the most recent one (0 when
\* there is none).
C22_HistogramKeepsObservations ==
    LET h == observations(metrics, "file_read_duration_ms") IN
        /\ Len(h) = RecordsOf("read_file")
        /\ as_number(Histogram(h)) = (IF RecordsOf("read_file") = 0 THEN 0 ELSE 1)

\* C23: concurrent updates of one session are serialized: the request_count
\* of a session in the table is the number of update_activity calls on it that
\* have returned, and no step decreases the request_count of a session that
\* stays in the table.
C23_UpdatesSerialized ==
    [][\A id \in DOMAIN active_sessions' :
          /\ active_sessions'[id].request_count = SumOver(updates'[id], Callers)
          /\ id \in DOMAIN active_sessions =>
                 active_sessions'[id].request_count >= active_sessions[id].request_count]_vars

\* C23 witness: both callers have updated the same session, one call each, and
\* its request_count is 2.
C23_Witness ==
    \E id \in DOMAIN active_sessions :
        /\ \A t \in Callers : updates[id][t] = 1
        /\ active_sessions[id].request_count = 2

\* An address a run of cleanup would remove from the table now: none of its
\* timestamps lies within the window.
Swept(ip) == ip \in DOMAIN connections /\ ip \notin DOMAIN cleanup(connections, instantNow)

\* C24: the tracking table is garbage-collected: the sweep runs again and
\* again, so an address whose timestamps all lie outside the window does not
\* stay in the table: it is removed (or it connects again).
C24_TableSwept ==
    \A ip \in IpAddrs : Swept(ip) ~> ~Swept(ip)

\* C25: every frame written to a WebSocket for an event is one JSON text frame
\* whose object has a type field and a timestamp field, whatever the variant
\* of the event, custom payloads included.
C25_WsFrameHasTypeAndTimestamp ==
    \A i \in DOMAIN wsOut :
        /\ wsOut[i].frame.opcode = "text"
        /\ wsOut[i].frame.json.kind = "object"
        /\ {"type", "timestamp"} \subseteq DOMAIN wsOut[i].frame.json.fields

\* The JSON document of an SSE frame.
DataOf(frame) == frame.lines[2].value

\* C26: for every event variant the JSON document of the SSE frame has the
\* fields of the WebSocket message of the same event with the same values
\* (the timestamp, which each connection takes when it writes, aside), and
\* besides them at most an html field.
C26_SseSameFieldsAsWs ==
    \A i \in DOMAIN wsOut, j \in DOMAIN sseOut :
        wsOut[i].event = sseOut[j].event =>
            LET w == wsOut[i].frame.json.fields
                e == DataOf(sseOut[j].frame).fields
            IN  /\ DOMAIN w \subseteq DOMAIN e
                /\ DOMAIN e \subseteq DOMAIN w \cup {"html"}
                /\ \A f \in (DOMAIN w) \ {"timestamp"} : e[f] = w[f]

\* The values of a sequence.
Range(q) == {q[i] : i \in DOMAIN q}

\* C27: the SSE frame of a ToolCalled{name, id} event begins with the line
\* "event: tool_called" and ends with a blank line; its JSON data carries the
\* name and the id, and its html fragment contains the same name and the
\* string form of the id.
C27_ToolCalledFrame ==
    \A j \in DOMAIN sseOut :
        sseOut[j].event.variant = "ToolCalled" =>
            LET frame == sseOut[j].frame
                data == DataOf(frame).fields
            IN  /\ frame.lines[1] = [field |-> "event", value |-> "tool_called"]
                /\ frame.lines[2].field = "data"
                /\ frame.end = "\n\n"
                /\ data.name = sseOut[j].event.name
                /\ data.id = uuid_to_string(sseOut[j].event.id)
                /\ data.name \in Range(data.html.args)
                /\ data.id \in Range(data.html.args)

\* C27 witness: the SSE connection has written the frame of
\* ToolCalled{name: "echo", id: 2}.
C27_Witness ==
    \E j \in DOMAIN sseOut :
        /\ sseOut[j].event = [variant |-> "ToolCalled", name |-> "echo", id |-> 2]
        /\ DataOf(sseOut[j].frame).fields.name = "echo"

\* The shutdown signal has been sent, or its sender dropped.
Signalled == shutdown_rx \in {"value", "closed"}

C29_SuspendedHoldsNoLock ==
    \A t \in LockTasks : kwait[t] => kheld[t] = {}

\* C29 witness: a task is suspended waiting for the history lock while
\* another task holds a guard of it.
C29_Witness ==
    \E t, u \in LockTasks :
        /\ t # u
        /\ kwait[t]
        /\ current(t).op = "await_lock"
        /\ current(t).lock = "tool_calls"
        /\ \E g \in kheld[u] : g.lock = "tool_calls"

\* C30: every record in the tool call history is in completed shape: it was
\* completed with an outcome and a duration before it was appended, so no
\* record in the history lacks an outcome or a duration.
C30_HistoryRecordsCompleted ==
    \A i \in DOMAIN tool_calls :
        /\ tool_calls[i].result # None
        /\ tool_calls[i].duration_ms # None

\* The calls for an address that were accepted, by the time they recorded,
\* in the window-length interval that starts with the time of call i.
AcceptedInWindow(log, i) ==
    {j \in DOMAIN log :
        /\ log[j].allowed
        /\ log[j].now >= log[i].now
        /\ log[j].now - log[i].now < time_window}

\* C31: under any interleaving of concurrent check_rate_limit calls, no
\* address has more than max_connections_per_ip timestamps younger than the
\* window in the table, and no address is accepted more than
\* max_connections_per_ip times within a window-length interval.
C31_WindowNeverExceeded ==
    \A ip \in IpAddrs :
        /\ Len(retain(entry(connections, ip), instantNow)) <= max_connections_per_ip
        /\ \A i \in DOMAIN callLog[ip] :
               callLog[ip][i].allowed =>
                   Cardinality(AcceptedInWindow(callLog[ip], i)) <= max_connections_per_ip

Last(s) == s[Len(s)]

\* C32: in websocket_handler the rate-limit check runs before the origin
\* check.  Whenever a handler returns an origin rejection, its call of
\* check_rate_limit had returned true and the timestamp of that call is the
\* newest one recorded for the address; whenever check_rate_limit returned
\* false the request is answered 429, also when its origin is not allowed,
\* and never 403.
C32_RateLimitBeforeOrigin ==
    [][\A t \in RateTasks :
         (lret[t] # None /\ lret'[t] = None) =>
             /\ aadm'[t] = "OriginRejected" =>
                   /\ lret[t] = Some(TRUE)
                   /\ callLog[SeqIp] # <<>>
                   /\ Last(callLog[SeqIp]).allowed
                   /\ entry(connections, SeqIp) # <<>>
                   /\ Last(entry(connections, SeqIp)) = Last(callLog[SeqIp]).now
             /\ lret[t] = Some(FALSE) =>
                   /\ aresp'[t] = "TooManyRequests"
                   /\ aadm'[t] = "RateLimited"]_vars

\* C32 witness: the eleventh request of a window carried an origin that is
\* not allowed and was answered 429; nothing was recorded for it.
C32_Witness ==
    /\ aadm[SeqTask] = "RateLimited"
    /\ aresp[SeqTask] = "TooManyRequests"
    /\ areq[SeqTask] # None
    /\ ~validate_websocket_origin(areq[SeqTask])
    /\ Len(callLog[SeqIp]) > max_connections_per_ip
    /\ ~Last(callLog[SeqIp]).allowed
    /\ Len(entry(connections, SeqIp)) = max_connections_per_ip

\* The ids of the records a get_tool_calls reader asking for the whole
\* history is handed.
HistoryIds == {c.id : c \in Range(get_tool_calls(tool_calls, Len(tool_calls)))}

\* C33: record_tool_call appends before it publishes.  Whenever a receiver is
\* handed the ToolCalled event of a record_tool_call, a get_tool_calls reader
\* running at that moment is already handed the record with the event's id.
C33_AppendedBeforePublished ==
    [][\A r \in Receivers :
         (/\ Len(observed'[r]) = Len(observed[r]) + 1
          /\ Last(observed'[r]).kind = "Ok"
          /\ Last(observed'[r]).pos \in DOMAIN toolCalled)
         => toolCalled[Last(observed'[r]).pos] \in HistoryIds]_vars

\* C33 witness: a receiver was handed the event of a call whose
\* record_tool_call has not returned yet, and a reader that ran before the
\* event was sent was handed the record.
C33_Witness ==
    \E r \in Receivers, t \in DeliverTasks :
        /\ rpc[t] \in {"get", "insert"}
        /\ observed[r] # <<>>
        /\ Last(observed[r]).kind = "Ok"
        /\ Last(observed[r]).pos \in DOMAIN toolCalled
        /\ toolCalled[Last(observed[r]).pos] = rcall[t].id
        /\ recent # None
        /\ rcall[t].id \in {c.id : c \in Range(recent.calls)}
        /\ recent.at < Len(tool_calls)

\* The records of the history whose id, written as a string, is id.
RecordsWithId(id) == {i \in DOMAIN tool_calls : uuid_to_string(tool_calls[i].id) = id}

\* C34: every execute_tool request, for a known or an unknown tool, succeeding
\* or failing, records exactly once: the history holds one record per request
\* received, every response names exactly one record of the history by its
\* tool_call_id, no two responses name the same record, and once every
\* request is answered there are as many records as responses.
C34_OneRecordPerRequest ==
    /\ Len(tool_calls) = requests
    /\ \A k \in DOMAIN responses :
         /\ Cardinality(RecordsWithId(responses[k].tool_call_id)) = 1
         /\ \A i \in RecordsWithId(responses[k].tool_call_id) :
              /\ tool_calls[i].success = responses[k].success
              /\ tool_calls[i].error = responses[k].error
    /\ \A k, m \in DOMAIN responses :
         responses[k].tool_call_id = responses[m].tool_call_id => k = m
    /\ (\A t \in RecTasks : xcall[t] = None) => Len(responses) = Len(tool_calls)

\* C34 witness: a request for an unknown tool, one whose tool failed and one
\* whose tool succeeded have all been answered.
C34_Witness ==
    /\ \A t \in RecTasks : xcall[t] = None
    /\ Len(tool_calls) = MaxCalls
    /\ \E k \in DOMAIN responses : responses[k].status = "BadRequest"
    /\ \E k \in DOMAIN responses : responses[k].status = "Ok" /\ ~responses[k].success
    /\ \E k \in DOMAIN responses : responses[k].status = "Ok" /\ responses[k].success

\* C35: cleanup is observationally transparent.  With calls made one after
\* another at non-decreasing times, every check_rate_limit call returns what
\* the same call returns on the table that no cleanup has touched.
C35_CleanupTransparent ==
    [][\A t \in RateTasks :
         (lpc[t] = "lock" /\ lpc'[t] = "idle") =>
             lret'[t] = Some(check_rate_limit(uncleaned, lip[t], lnow[t]).allowed)]_vars

\* C35 witness: cleanup has removed the entry of an address, which the
\* untouched table still holds, and a later call for the other address, the
\* eleventh of its window, was rejected.
C35_Witness ==
    \E ip \in IpAddrs :
        /\ ip \in DOMAIN uncleaned
        /\ ip \notin DOMAIN connections
        /\ \E other \in IpAddrs \ {ip} :
             /\ Len(callLog[other]) > max_connections_per_ip
             /\ ~Last(callLog[other]).allowed
             /\ Last(callLog[other]).now >= time_window

\* C36: rate limiting is per address.  A check_rate_limit call for address A,
\* accepted or rejected, leaves the entry of every other address as it was,
\* and with it the result of a call for that address at any time; a rejected
\* call adds no timestamp to the entry of A, and an accepted one adds its own.
C36_PerAddress ==
    [][\A t \in RateTasks :
         (lpc[t] = "lock" /\ lpc'[t] = "idle") =>
             /\ \A ip \in IpAddrs \ {lip[t]} :
                  /\ ip \in DOMAIN connections' <=> ip \in DOMAIN connections
                  /\ entry(connections', ip) = entry(connections, ip)
                  /\ \A now \in {n \in 0..MaxInstant : n >= instantNow} :
                       check_rate_limit(connections', ip, now).allowed
                           = check_rate_limit(connections, ip, now).allowed
             /\ lret'[t] = Some(FALSE) =>
                  entry(connections', lip[t]) = retain(entry(connections, lip[t]), lnow[t])
             /\ lret'[t] = Some(TRUE) =>
                  entry(connections', lip[t]) =
                      Append(retain(entry(connections, lip[t]), lnow[t]), lnow[t])]_vars

\* C36 witness: a call for one address was rejected, its entry holding
\* max_connections_per_ip timestamps, while the other address has an entry
\* of its own with fewer.
C36_Witness ==
    \E ip \in IpAddrs : \E other \in IpAddrs \ {ip} :
        /\ lret[SeqTask] = Some(FALSE)
        /\ callLog[ip] # <<>>
        /\ ~Last(callLog[ip]).allowed
        /\ Len(entry(connections, ip)) = max_connections_per_ip
        /\ entry(connections, other) # <<>>
        /\ Len(entry(connections, other)) < max_connections_per_ip

\* The loop of connection c hands the client the events that wait for it
\* without a further frame from the client: its recv branch is polled.
delivering(c) == ckind[c] = "ws" /\ cpc[c] = "loop" /\ ~recvOff[c]

\* C37: inbound client frames carry no commands.  Receiving an inbound frame
\* other than Close leaves the shared state, the position and liveness of
\* the connection's receiver and what it has been handed unchanged, the loop
\* continues, and whether the waiting events are sent to the client is the
\* same after the frame as before it.
C37_InboundFrameNoEffect ==
    [][\A c \in Conns :
         ws_inbound_frame(c) =>
             /\ UNCHANGED <<tool_calls, metrics, mcp_status, tail>>
             /\ rx'[c] = rx[c] /\ rxSub'[c] = rxSub[c] /\ observed'[c] = observed[c]
             /\ cpc'[c] = "loop"
             /\ delivering(c)' <=> delivering(c)]_vars

\* C38: under any interleaving of the get_status and get_heartbeat handlers,
\* once main() has stored its status no store changes started_at,
\* capabilities or server_info; a store changes last_heartbeat at most, and
\* connected only to true.
C38_StartupFieldsKept ==
    [][started =>
         /\ mcp_status'.started_at = mcp_status.started_at
         /\ mcp_status'.capabilities = mcp_status.capabilities
         /\ mcp_status'.server_info = mcp_status.server_info
         /\ mcp_status'.connected # mcp_status.connected => mcp_status'.connected]_vars

\* C38 witness: a handler has stored a later heartbeat over the status of
\* main() while another handler still holds the copy it loaded before that
\* store, which it will store in turn.
C38_Witness ==
    /\ started
    /\ mcp_status.last_heartbeat # Some(mcp_status.started_at)
    /\ \E t \in StatusTasks :
         /\ spc[t] = "loaded"
         /\ sloaded[t] # mcp_status
         /\ sloaded[t].started_at = mcp_status.started_at

\* The server shows a sign of development other than the enable_debug_routes
\* setting itself: debug or trace logging, a Cargo run, CORS on all interfaces.
other_indicators(config, env) ==
    \/ is_ok_and_debug_or_trace(env.RUST_LOG)
    \/ env.CARGO_PKG_VERSION # None
    \/ config.enable_cors /\ config.dashboard_host = "0.0.0.0"

\* C39: Config::validate returns a configuration error for every
\* configuration that has debug routes enabled while the server is not in
\* development mode, where development mode is shown by the environment or
\* the other settings (debug or trace logging, a Cargo run, CORS on all
\* interfaces): debug routes cannot be enabled in production mode.
C39_DebugRoutesRejectedInProduction ==
    validation # None =>
        ((/\ validation.config.enable_debug_routes
          /\ ~other_indicators(validation.config, validation.env))
         => validation.result.tag = "Err")

\* What the holder of an AppState value sees through it.
View(h, inst) == [f \in Fields |-> h[inst[f]]]

\* The state of a freshly constructed AppState.
Fresh(view) ==
    /\ view.mcp_status.connected
    /\ view.active_sessions = <<>>
    /\ view.tool_calls = <<>>
    /\ view.metrics = <<>>
    /\ view.event_tx.receivers = 0

\* C40: a freshly constructed AppState has status connected = true, no
\* active sessions, an empty tool call history, no metrics and no event
\* subscribers, and independently constructed instances share no state: no
\* two of them have a cell in common, constructing one changes nothing another
\* sees, and no operation changes what two independent instances see.
C40_FreshAndSeparate ==
    [][/\ Len(instances') = Len(instances) + 1 /\ Last(instances').root = Len(instances')
          => /\ Fresh(View(heap', Last(instances')))
             /\ \A j \in DOMAIN instances :
                  View(heap', instances[j]) = View(heap, instances[j])
       /\ \A i, j \in DOMAIN instances' :
            instances'[i].root # instances'[j].root =>
                {instances'[i][f] : f \in Fields} \cap {instances'[j][f] : f \in Fields} = {}
       /\ \A i, j \in DOMAIN instances :
            instances[i].root # instances[j].root =>
                \/ View(heap', instances[i]) = View(heap, instances[i])
                \/ View(heap', instances[j]) = View(heap, instances[j])]_vars

\* C40 witness: of two independently constructed instances one has a record,
\* a metric, a subscriber, a session and a status that is not connected, and
\* the other is as AppState::new left it.
C40_Witness ==
    \E i, j \in DOMAIN instances :
        /\ instances[i].root # instances[j].root
        /\ Fresh(View(heap, instances[j]))
        /\ ~View(heap, instances[i]).mcp_status.connected
        /\ View(heap, instances[i]).active_sessions # <<>>
        /\ View(heap, instances[i]).tool_calls # <<>>
        /\ View(heap, instances[i]).metrics # <<>>
        /\ View(heap, instances[i]).event_tx.receivers = 1
====
